---- MODULE Spec2Model ----
(***************************************************************************)
(* Hybrid forecasting and automatic model-fallback engine:                 *)
(*   services/forecastService.py        (ForecastService, the orchestrator)*)
(*   services/sarimaFallbackService.py  (SarimaFallbackService)            *)
(*   app.py                             (update_metric_forecast)           *)
(*                                                                         *)
(* Spec        : the public operations of one ForecastService instance,    *)
(*               called one after the other; every window of tracker       *)
(*               samples, the main kinds of predict() input.               *)
(* SpecPredict : the same operations; every kind of predict() input and    *)
(*               environment outcome, one tracker sample.                  *)
(* SpecLoad    : concurrent predict() callers, statement by statement      *)
(*               through the lazy load of the primary model.               *)
(* SpecSarima  : the operations of one SarimaFallbackService instance,     *)
(*               forecast() on constant, trending and seasonal histories.  *)
(* SpecNumeric : _applyDifferencing, _invertDifferencing,                  *)
(*               applyHumidityCorrection, aggregateHourlyData and the      *)
(*               future timestamps of predict(), each applied to one input.*)
(* SpecApp     : app.py, update_metric_forecast for the metrics of a rack. *)
(* SpecLock    : concurrent callers of the error tracker, one step per     *)
(*               access to a shared field or lock.                         *)
(* SpecLockFair: the lock-taking and status calls of SpecLock, with callers*)
(*               that keep running once inside a call.                     *)
(***************************************************************************)
EXTENDS Integers, Sequences, FiniteSets, TLC

(***************************************************************************)
(* Program constants                                                       *)
(***************************************************************************)
MinPoints == 10
MaxHorizon == 24
ContextLength == 168
SampleInterval == 3600
MaeThreshold == 5
\* seasonalPeriodDaily, the s of the SarimaConfig the orchestrator builds
SeasonalPeriod == 24

(***************************************************************************)
(* Bounds of the model                                                     *)
(***************************************************************************)
\* maeWindowSize / deque maxlen (168 in the source), scaled down
MaeWindowSize == 2
\* concurrent predict() callers in SpecLoad
NumThreads == 2

\* SpecNumeric: longest series, largest value and highest order given to
\* the differencing functions
MaxSeriesLen == 4
MaxSeriesValue == 1
MaxOrder == 2

\* updateMaeTracking calls explored: two beyond a full window
MaxCalls == MaeWindowSize + 2

VARIABLES
    GRANITE_AVAILABLE,   \* module flag: tsfm_public / torch importable
    forecast_horizon,    \* ForecastService.forecast_horizon
    use_granite,         \* ForecastService.use_granite
    model_loaded,        \* ForecastService._model_loaded
    fsRunning,           \* ForecastService._running
    useFallback,         \* ForecastService.useFallback
    currentMae,          \* ForecastService.currentMae
    predictionHistory,   \* ForecastService.predictionHistory
    actualHistory,       \* ForecastService.actualHistory
    sRunning,            \* SarimaFallbackService._running
    sPredictionHistory,  \* SarimaFallbackService.predictionHistory
    sActualHistory,      \* SarimaFallbackService.actualHistory
    sCurrentMae,         \* SarimaFallbackService.currentMae
    fallbackActive,      \* SarimaFallbackService.fallbackActive
    op,                  \* the operation that ran last
    arg,                 \* its arguments
    ret,                 \* its return value
    attempted,           \* predict(): the models attempted, in order
    logs,                \* the transition log lines the operation emitted
    calls,               \* number of ForecastService.updateMaeTracking calls
    pc,                  \* each concurrent caller's position in its call
    loadRuns,            \* executions of the model load so far
    STATSMODELS_AVAILABLE, \* module flag of sarimaFallbackService.py
    configS,             \* SarimaFallbackService.config.s
    fsLock,              \* ForecastService._lock: its holder, 0 when free
    sLock,               \* SarimaFallbackService._lock: its holder, 0 when free
    locals,              \* each concurrent caller's local variables
    stateForecast        \* app.py: state['<metric>_forecast'] of one rack

fsTracker == <<predictionHistory, actualHistory, currentMae, useFallback>>
sTracker == <<sPredictionHistory, sActualHistory, sCurrentMae, fallbackActive>>
observed == <<op, arg, ret, attempted, logs>>
loadVars == <<pc, loadRuns>>
sarimaConfig == <<STATSMODELS_AVAILABLE, configS>>
lockVars == <<fsLock, sLock, locals>>
appVars == <<stateForecast>>
elsewhere == <<sarimaConfig, lockVars, appVars>>
vars == <<GRANITE_AVAILABLE, forecast_horizon, use_granite, model_loaded,
          fsRunning, sRunning, fsTracker, sTracker, observed, calls, loadVars,
          elsewhere>>

Min(a, b) == IF a < b THEN a ELSE b
Abs(x) == IF x < 0 THEN -x ELSE x

Reverse(s) == [i \in 1..Len(s) |-> s[Len(s) + 1 - i]]

(***************************************************************************)
(* Rolling MAE: a float is kept as the exact fraction num/den              *)
(***************************************************************************)
ZeroMae == [num |-> 0, den |-> 1]

\* mutant: an MAE equal to the threshold counts as exceeding it
MaeGreater_OrEqual(m, threshold) == m.num >= threshold * m.den

MaeGreater(m, threshold) == m.num > threshold * m.den

MaeEqual(m1, m2) == m1.num * m2.den = m2.num * m1.den

RECURSIVE SumAbsErr(_, _, _)
SumAbsErr(predictions, actuals, n) ==
    IF n = 0 THEN 0
    ELSE Abs(predictions[n] - actuals[n]) + SumAbsErr(predictions, actuals, n - 1)

\* mutant: the sum of errors is divided by the window size
CalculateMae_FullWindow(predictions, actuals) ==
    IF predictions = <<>> \/ actuals = <<>> THEN ZeroMae
    ELSE [num |-> SumAbsErr(predictions, actuals, Min(Len(predictions), Len(actuals))),
          den |-> MaeWindowSize]

\* calculateMae (identical in both services)
CalculateMae(predictions, actuals) ==
    IF predictions = <<>> \/ actuals = <<>> THEN ZeroMae
    ELSE LET n == Min(Len(predictions), Len(actuals))
         IN  [num |-> SumAbsErr(predictions, actuals, n), den |-> n]

\* mutant: a deque that never evicts
DequeAppend_NoEviction(dq, x, maxlen) == Append(dq, x)

\* deque(maxlen=...).append: the oldest entry is dropped when full
DequeAppend(dq, x, maxlen) ==
    IF Len(dq) >= maxlen THEN Append(Tail(dq), x) ELSE Append(dq, x)

(***************************************************************************)
(* SarimaFallbackService: error tracker                                    *)
(***************************************************************************)
NoMae == [none |-> TRUE, num |-> 0, den |-> 1]
SomeMae(m) == [none |-> FALSE, num |-> m.num, den |-> m.den]

\* SarimaFallbackService.shouldUseFallback(graniteMae), given the current
\* fallbackActive: the value returned, the flag afterwards, the lines logged
SarimaShouldUseFallback(graniteMae, active) ==
    IF graniteMae.none
    THEN [ret |-> TRUE, active |-> TRUE,
          logs |-> IF ~active THEN {"sarima:activate"} ELSE {}]
    ELSE IF MaeGreater(graniteMae, MaeThreshold)
    THEN [ret |-> TRUE, active |-> TRUE,
          logs |-> IF ~active THEN {"sarima:activate"} ELSE {}]
    ELSE [ret |-> FALSE, active |-> FALSE,
          logs |-> IF active THEN {"sarima:deactivate"} ELSE {}]

\* SarimaFallbackService.updateMaeTracking(predicted, actual), under its lock
SarimaUpdateMaeTracking(predicted, actual) ==
    /\ sPredictionHistory' = DequeAppend(sPredictionHistory, predicted, MaeWindowSize)
    /\ sActualHistory' = DequeAppend(sActualHistory, actual, MaeWindowSize)
    /\ sCurrentMae' = CalculateMae(sPredictionHistory', sActualHistory')

\* SarimaFallbackService.getModelInfo()
SarimaGetModelInfo ==
    [modelType |-> "SARIMA", currentMae |-> sCurrentMae,
     fallbackActive |-> fallbackActive, running |-> sRunning]

(***************************************************************************)
(* SarimaFallbackService: the forecast                                     *)
(*                                                                         *)
(* Series are integer sequences.  A forecast value is the record           *)
(* [num, den, sym]: the exact number num/den (NaN when den = 0) when sym   *)
(* is "exact"; num/den plus the cumulated output of the AR recursion when  *)
(* sym is "ar"; a value computed by statsmodels when sym is "lib".         *)
(***************************************************************************)
\* the SarimaConfig the orchestrator builds (forecastService.py 111-118)
ArOrder == 2
NonSeasonalDiffs == 1
SeasonalDiffs == 1
\* _detectSeasonality: below this length the configured period is kept
MinDetectLength == 50
MaxLags == 100

Exact(n) == [num |-> n, den |-> 1, sym |-> "exact"]
Fraction(num, den) == [num |-> num, den |-> den, sym |-> "exact"]
NaN == [num |-> 0, den |-> 0, sym |-> "exact"]

\* x[lo] + ... + x[hi], by halves
RECURSIVE SumRange(_, _, _)
SumRange(x, lo, hi) ==
    IF lo > hi THEN 0
    ELSE IF lo = hi THEN x[lo]
    ELSE LET mid == (lo + hi) \div 2
         IN  SumRange(x, lo, mid) + SumRange(x, mid + 1, hi)

\* the sum of the first n entries
SumSeq(x, n) == SumRange(x, 1, n)

\* result[s:] - result[:-s], only when len(result) > s
\* mutant: the seasonal step also runs on a series of exactly s points
SeasonalDifference_AtLag(x, s) ==
    IF Len(x) >= s THEN [i \in 1..(Len(x) - s) |-> x[i + s] - x[i]] ELSE x

SeasonalDifference(x, s) ==
    IF Len(x) > s THEN [i \in 1..(Len(x) - s) |-> x[i + s] - x[i]] ELSE x

\* np.diff(result), only when len(result) > 1
Difference(x) ==
    IF Len(x) > 1 THEN [i \in 1..(Len(x) - 1) |-> x[i + 1] - x[i]] ELSE x

RECURSIVE SeasonalDifferenceTimes(_, _, _)
SeasonalDifferenceTimes(x, s, D) ==
    IF D = 0 THEN x ELSE SeasonalDifferenceTimes(SeasonalDifference(x, s), s, D - 1)

RECURSIVE DifferenceTimes(_, _)
DifferenceTimes(x, d) ==
    IF d = 0 THEN x ELSE DifferenceTimes(Difference(x), d - 1)

\* _applyDifferencing(series, d, s, D): seasonal first, then non-seasonal
ApplyDifferencing(series, d, s, D) ==
    DifferenceTimes(SeasonalDifferenceTimes(series, s, D), d)

\* lastValue + np.cumsum(result), lastValue = originalSeries[-1]
CumulateFromLast(result, originalSeries) ==
    [i \in 1..Len(result) |-> originalSeries[Len(originalSeries)] + SumSeq(result, i)]

\* val + baseValues[i % s], baseValues = originalSeries[-s:], only when
\* len(originalSeries) >= s
AddSeasonalBase(result, originalSeries, s) ==
    IF Len(originalSeries) >= s
    THEN [i \in 1..Len(result) |->
             result[i] + originalSeries[Len(originalSeries) - s + ((i - 1) % s) + 1]]
    ELSE result

RECURSIVE CumulateTimes(_, _, _)
CumulateTimes(result, originalSeries, d) ==
    IF d = 0 THEN result
    ELSE CumulateTimes(CumulateFromLast(result, originalSeries), originalSeries, d - 1)

RECURSIVE AddSeasonalBaseTimes(_, _, _, _)
AddSeasonalBaseTimes(result, originalSeries, s, D) ==
    IF D = 0 THEN result
    ELSE AddSeasonalBaseTimes(AddSeasonalBase(result, originalSeries, s),
                              originalSeries, s, D - 1)

\* _invertDifferencing(forecasts, originalSeries, d, s, D)
InvertDifferencing(forecasts, originalSeries, d, s, D) ==
    AddSeasonalBaseTimes(CumulateTimes(forecasts, originalSeries, d),
                         originalSeries, s, D)

Zeros(k) == [i \in 1..k |-> 0]

IsConstant(x) == \A i \in 1..Len(x) : x[i] = x[1]

\* np.mean(series[-min(10, len(series)):]) repeated steps times
MeanOfLast(series, steps) ==
    LET k == Min(10, Len(series))
        last == SubSeq(series, Len(series) - k + 1, Len(series))
    IN  [i \in 1..steps |-> Fraction(SumSeq(last, k), k)]

\* _simpleSarimaForecast(series, steps) with period s.  arFit is what
\* _fitArCoefficients yields on a differenced series without variance, where
\* the normalisation divides 0 by 0: "nan" coefficients out of linalg.solve,
\* or "zeros" when the solver raises and np.zeros(p) is returned.
SimpleSarimaForecast(series, steps, s, arFit) ==
    LET diffSeries == ApplyDifferencing(series, NonSeasonalDiffs, s, SeasonalDiffs)
    IN  IF Len(diffSeries) < ArOrder + 1
        THEN MeanOfLast(series, steps)
        ELSE LET level == InvertDifferencing(Zeros(steps), series,
                                             NonSeasonalDiffs, s, SeasonalDiffs)
             IN  IF ~IsConstant(diffSeries)
                 THEN [i \in 1..steps |-> [num |-> level[i], den |-> 1, sym |-> "ar"]]
                 ELSE IF arFit = "nan"
                 THEN [i \in 1..steps |-> NaN]
                 ELSE [i \in 1..steps |-> Exact(level[i])]

\* the series the forecast is exercised on, by kind and length:
\*   "constant"  every value 20
\*   "ramp"      1, 2, 3, ...
\*   "daily"     a square wave of period 24
\*   "halfday"   a square wave of period 12
SeriesKinds == {"constant", "ramp", "daily", "halfday"}
SeriesLengths == {MinPoints - 1, MinPoints, SeasonalPeriod, SeasonalPeriod + 2,
                  MinDetectLength, 200}
ConstantValue == 20

SeriesOf(kind, n) ==
    CASE kind = "constant" -> [i \in 1..n |-> ConstantValue]
      [] kind = "ramp" -> [i \in 1..n |-> i]
      [] kind = "daily" -> [i \in 1..n |-> IF (i - 1) % 24 < 12 THEN 1 ELSE 0]
      [] OTHER -> [i \in 1..n |-> IF (i - 1) % 12 < 6 THEN 1 ELSE 0]

\* sum over i of centered[i] * centered[i + k], the mean removed, every
\* value scaled by n (np.correlate(centered, centered, mode='full')[n-1+k])
AutoCorrelation(x, k) ==
    LET n == Len(x)
        total == SumSeq(x, n)
        products == [i \in 1..(n - k) |-> (n * x[i] - total) * (n * x[i + k] - total)]
    IN  SumSeq(products, n - k)

\* _detectSeasonality(series): 0 when the configured period is kept (fewer
\* than 50 points, no variance, or no significant peak), else the lag of the
\* highest peak.  statsmodels' acf returns one lag more than the numpy path.
DetectSeasonality(x, statsmodels) ==
    IF Len(x) < MinDetectLength THEN 0
    ELSE LET nlags == Min(MaxLags, Len(x) \div 2)
             count == IF statsmodels THEN nlags + 1 ELSE nlags
             autocorr == [j \in 1..count |-> AutoCorrelation(x, j - 1)]
             peaks == {i \in 2..(count - 2) :
                          /\ autocorr[1] > 0
                          /\ autocorr[i + 1] > autocorr[i]
                          /\ autocorr[i + 1] > autocorr[i + 2]
                          /\ 10 * autocorr[i + 1] > 3 * autocorr[1]}
         IN  IF peaks = {} THEN 0
             ELSE CHOOSE i \in peaks :
                     \A j \in peaks : \/ autocorr[i + 1] > autocorr[j + 1]
                                      \/ (autocorr[i + 1] = autocorr[j + 1] /\ i <= j)

\* (the tables below are combined with the empty function so that they are
\* held as explicit functions, their entries evaluated once)
\* the (kind, length) pairs used; the long ramp is left out, its sums of
\* products exceed the integers of the checker
SeriesInputs ==
    {in \in SeriesKinds \X SeriesLengths : ~(in[1] = "ramp" /\ in[2] > MinDetectLength)}

\* computed once for the series above
DetectedPeriod ==
    [in \in SeriesInputs, statsmodels \in BOOLEAN |->
        DetectSeasonality(SeriesOf(in[1], in[2]), statsmodels)] @@ <<>>

\* confidence = max(0.5, min(0.95, 1 - variance / (mean^2 + 1e-6))), the
\* variance over the last 50 values, the mean over all: in hundredths, 0 for
\* a value strictly between the two caps.  With spread = k^2 * variance and
\* total = n * mean the ratio is (spread * n^2) / (total^2 * k^2).
Confidence(x) ==
    LET n == Len(x)
        k == Min(50, n)
        last == SubSeq(x, n - k + 1, n)
        squares == SumSeq([i \in 1..k |-> last[i] * last[i]], k)
        spread == k * squares - SumSeq(last, k) * SumSeq(last, k)
        total == SumSeq(x, n)
        lhs == IF k = n THEN spread ELSE spread * n * n
        rhs == IF k = n THEN total * total ELSE total * total * k * k
    IN  IF spread = 0 THEN 95
        ELSE IF 20 * lhs <= rhs THEN 95
        ELSE IF 2 * lhs >= rhs THEN 50
        ELSE 0

\* forecast(dataHistory, steps): the inputs
SarimaSteps == {1, 5}
TimestampKinds == {"ok", "unparseable"}
ArFits == {"nan", "zeros", "raises"}

\* the period forecast() works with: the detected one, written to config.s
\* (autoSelectParams), or the configured one
PeriodAfterDetection(in, s) ==
    LET detected == DetectedPeriod[in, STATSMODELS_AVAILABLE]
    IN  IF detected = 0 THEN s ELSE detected

\* the predictions of _simpleSarimaForecast, its except branch included
SimplePredictions(in, steps, s, arFit) ==
    IF arFit = "raises" THEN MeanOfLast(SeriesOf(in[1], in[2]), steps)
    ELSE SimpleSarimaForecast(SeriesOf(in[1], in[2]), steps, s, arFit)

\* computed once: every series, step count, period in use and AR outcome
SimplePredictionsTable ==
    [in \in SeriesInputs, steps \in SarimaSteps, s \in {SeasonalPeriod, 12},
     arFit \in ArFits |-> SimplePredictions(in, steps, s, arFit)] @@ <<>>

ConfidenceTable ==
    [in \in SeriesInputs |-> Confidence(SeriesOf(in[1], in[2]))] @@ <<>>

\* what statsmodels' forecast returns: steps values of its own
LibraryPredictions(steps) == [i \in 1..steps |-> [num |-> 0, den |-> 1, sym |-> "lib"]]

\* SarimaFallbackService.forecast: the result and config.s afterwards.
\* libFit is whether SARIMAX fits ("ok") or raises; arFit as above.
SarimaForecastOutcome(in, timestamps, steps, libFit, arFit) ==
    IF ~sRunning \/ in[2] < MinPoints \/ timestamps = "unparseable"
    THEN [ret |-> [kind |-> "none"], s |-> configS]
    ELSE LET s == PeriodAfterDetection(in, configS)
             predictions == IF STATSMODELS_AVAILABLE /\ libFit = "ok"
                            THEN LibraryPredictions(steps)
                            ELSE SimplePredictionsTable[in, steps, s, arFit]
         IN  [ret |-> [kind |-> "result",
                       predictions |-> predictions,
                       confidence |-> ConfidenceTable[in],
                       period |-> s,
                       isFromFallback |-> TRUE],
              s |-> s]

\* SarimaFallbackService.forecast(dataHistory, steps), called directly
SarimaForecast(in, timestamps, steps, libFit, arFit) ==
    /\ LET o == SarimaForecastOutcome(in, timestamps, steps, libFit, arFit)
       IN  ret' = o.ret /\ configS' = o.s
    /\ op' = "sarima.forecast"
    /\ arg' = [kind |-> in[1], len |-> in[2], timestamps |-> timestamps,
               steps |-> steps, libFit |-> libFit, arFit |-> arFit]
    /\ attempted' = <<>>
    /\ logs' = {}
    /\ UNCHANGED <<GRANITE_AVAILABLE, forecast_horizon, use_granite, model_loaded,
                   fsRunning, sRunning, fsTracker, sTracker, calls, loadVars,
                   STATSMODELS_AVAILABLE, lockVars, appVars>>

\* SarimaFallbackService.updateMaeTracking(predicted, actual), called directly
SarimaUpdate(predicted, actual) ==
    /\ SarimaUpdateMaeTracking(predicted, actual)
    /\ op' = "sarima.updateMaeTracking"
    /\ arg' = [predicted |-> predicted, actual |-> actual]
    /\ ret' = [kind |-> "mae", mae |-> sCurrentMae']
    /\ attempted' = <<>>
    /\ logs' = {}
    /\ UNCHANGED <<GRANITE_AVAILABLE, forecast_horizon, use_granite, model_loaded,
                   fsRunning, sRunning, fsTracker, fallbackActive, calls, loadVars,
                   elsewhere>>

\* SarimaFallbackService.stop()
SarimaStop ==
    /\ sRunning' = FALSE
    /\ op' = "sarima.stop"
    /\ arg' = [none |-> TRUE]
    /\ ret' = [kind |-> "none"]
    /\ attempted' = <<>>
    /\ logs' = {}
    /\ UNCHANGED <<GRANITE_AVAILABLE, forecast_horizon, use_granite, model_loaded,
                   fsRunning, fsTracker, sTracker, calls, loadVars, elsewhere>>

\* SarimaFallbackService.start()
SarimaStart ==
    /\ sRunning' = TRUE
    /\ op' = "sarima.start"
    /\ arg' = [none |-> TRUE]
    /\ ret' = [kind |-> "none"]
    /\ attempted' = <<>>
    /\ logs' = {}
    /\ UNCHANGED <<GRANITE_AVAILABLE, forecast_horizon, use_granite, model_loaded,
                   fsRunning, fsTracker, sTracker, calls, loadVars, elsewhere>>

(***************************************************************************)
(* ForecastService.applyHumidityCorrection                                 *)
(*                                                                         *)
(* Temperatures are integers; the hourly humidity values are integers.     *)
(* With m values of sum total, avgHumidity is total/m and humiditySlope is *)
(* (last - first)/m, so every projected humidity is a multiple of 1/m and  *)
(* every corrected temperature a multiple of 1/(20 m).                     *)
(***************************************************************************)
MinExogenousPoints == 10
HumidityWindow == 24
ReferenceHumidity == 50
\* humidityImpactCoeff = 0.05 = 1 / ImpactDivisor
ImpactDivisor == 20

\* avgHumidity + humiditySlope * step, clamped to [0, 100], times m
ProjectedHumidity(humidityValues, step) ==
    LET m == Len(humidityValues)
        slopeTimesM == IF m >= 2 THEN humidityValues[m] - humidityValues[1] ELSE 0
        projected == SumSeq(humidityValues, m) + slopeTimesM * step
    IN  IF projected < 0 THEN 0
        ELSE IF projected > 100 * m THEN 100 * m
        ELSE projected

\* mutant: the deviation is taken from 0 instead of the 50 % reference
CorrectedTemperature_NoReference(tempValue, projectedTimesM, m) ==
    Fraction(tempValue * ImpactDivisor * m + projectedTimesM, ImpactDivisor * m)

\* tempValue + (projectedHumidity - 50.0) * 0.05
CorrectedTemperature(tempValue, projectedTimesM, m) ==
    Fraction(tempValue * ImpactDivisor * m + (projectedTimesM - ReferenceHumidity * m),
             ImpactDivisor * m)

\* applyHumidityCorrection(tempPredictions, humidityHistory, baseTimestamp).
\* humidityHistory is kept as [len, hourly, usable]: its length, the values
\* aggregateHourlyData leaves of it, and whether the values can be averaged;
\* applied tells whether a correction was computed.
ApplyHumidityCorrection(tempPredictions, humidityHistory) ==
    LET unchanged == [applied |-> FALSE,
                      values |-> [i \in 1..Len(tempPredictions) |-> Exact(tempPredictions[i])]]
    IN  IF humidityHistory.len < MinExogenousPoints THEN unchanged
        ELSE IF humidityHistory.hourly = <<>> THEN unchanged
        ELSE IF ~humidityHistory.usable THEN unchanged        \* except branch
        ELSE LET hourly == humidityHistory.hourly
                 k == Min(HumidityWindow, Len(hourly))
                 humidityValues == SubSeq(hourly, Len(hourly) - k + 1, Len(hourly))
             IN  [applied |-> TRUE,
                  values |-> [i \in 1..Len(tempPredictions) |->
                                CorrectedTemperature(tempPredictions[i],
                                    ProjectedHumidity(humidityValues, i), k)]]

(***************************************************************************)
(* ForecastService: error tracker                                          *)
(***************************************************************************)
\* mutant: the line is logged on every call that finds the MAE too high
FsTransitionLogs_SteadyState(shouldFallback, wasFallback) ==
    IF shouldFallback THEN {"fs:activate"}
    ELSE IF wasFallback THEN {"fs:deactivate"} ELSE {}

\* the orchestrator's own transition log line (logged only on change)
FsTransitionLogs(shouldFallback, wasFallback) ==
    IF shouldFallback # wasFallback
    THEN IF shouldFallback THEN {"fs:activate"} ELSE {"fs:deactivate"}
    ELSE {}

\* ForecastService.updateMaeTracking(predicted, actual), under its lock
UpdateMaeTracking(predicted, actual) ==
    /\ predictionHistory' = DequeAppend(predictionHistory, predicted, MaeWindowSize)
    /\ actualHistory' = DequeAppend(actualHistory, actual, MaeWindowSize)
    /\ currentMae' = CalculateMae(predictionHistory', actualHistory')
    /\ SarimaUpdateMaeTracking(predicted, actual)
    /\ LET r == SarimaShouldUseFallback(SomeMae(currentMae'), fallbackActive)
       IN  /\ fallbackActive' = r.active
           /\ useFallback' = IF r.ret # useFallback THEN r.ret ELSE useFallback
           /\ logs' = r.logs \cup FsTransitionLogs(r.ret, useFallback)
    /\ calls' = calls + 1
    /\ op' = "updateMaeTracking"
    /\ arg' = [predicted |-> predicted, actual |-> actual]
    /\ ret' = [kind |-> "mae", mae |-> currentMae']
    /\ attempted' = <<>>
    /\ UNCHANGED <<GRANITE_AVAILABLE, forecast_horizon, use_granite, model_loaded,
                   fsRunning, sRunning, loadVars, elsewhere>>

\* ForecastService.shouldUseFallback()
ShouldUseFallback ==
    /\ LET r == IF ~GRANITE_AVAILABLE
                THEN [ret |-> TRUE, active |-> fallbackActive, logs |-> {}]
                ELSE SarimaShouldUseFallback(SomeMae(currentMae), fallbackActive)
       IN  /\ fallbackActive' = r.active
           /\ logs' = r.logs
           /\ ret' = [kind |-> "bool", val |-> r.ret]
    /\ op' = "shouldUseFallback"
    /\ arg' = [none |-> TRUE]
    /\ attempted' = <<>>
    /\ UNCHANGED <<GRANITE_AVAILABLE, forecast_horizon, use_granite, model_loaded,
                   fsRunning, sRunning, fsTracker, sPredictionHistory,
                   sActualHistory, sCurrentMae, calls, loadVars, elsewhere>>

\* ForecastService.getFallbackInfo()
GetFallbackInfo ==
    /\ ret' = [kind |-> "fallbackInfo", fallbackActive |-> useFallback,
               currentMae |-> currentMae, sarimaInfo |-> SarimaGetModelInfo]
    /\ op' = "getFallbackInfo"
    /\ arg' = [none |-> TRUE]
    /\ attempted' = <<>>
    /\ logs' = {}
    /\ UNCHANGED <<GRANITE_AVAILABLE, forecast_horizon, use_granite, model_loaded,
                   fsRunning, sRunning, fsTracker, sTracker, calls, loadVars, elsewhere>>

\* ForecastService.get_model_info()
GetModelInfo ==
    /\ ret' = [kind |-> "modelInfo",
               using_granite |-> use_granite /\ model_loaded,
               granite_available |-> GRANITE_AVAILABLE,
               loaded |-> model_loaded,
               fallback_active |-> useFallback,
               current_mae |-> currentMae,
               sarima_info |-> SarimaGetModelInfo]
    /\ op' = "get_model_info"
    /\ arg' = [none |-> TRUE]
    /\ attempted' = <<>>
    /\ logs' = {}
    /\ UNCHANGED <<GRANITE_AVAILABLE, forecast_horizon, use_granite, model_loaded,
                   fsRunning, sRunning, fsTracker, sTracker, calls, loadVars, elsewhere>>

\* SarimaFallbackService.resetMaeTracking(), under its lock
ResetMaeTracking ==
    /\ sPredictionHistory' = <<>>
    /\ sActualHistory' = <<>>
    /\ sCurrentMae' = ZeroMae
    /\ fallbackActive' = FALSE
    /\ op' = "resetMaeTracking"
    /\ arg' = [none |-> TRUE]
    /\ ret' = [kind |-> "none"]
    /\ attempted' = <<>>
    /\ logs' = {}
    /\ UNCHANGED <<GRANITE_AVAILABLE, forecast_horizon, use_granite, model_loaded,
                   fsRunning, sRunning, fsTracker, calls, loadVars, elsewhere>>

\* ForecastService.stop(): stops the fallback service too
Stop ==
    /\ fsRunning' = FALSE
    /\ sRunning' = FALSE
    /\ op' = "stop"
    /\ arg' = [none |-> TRUE]
    /\ ret' = [kind |-> "none"]
    /\ attempted' = <<>>
    /\ logs' = {}
    /\ UNCHANGED <<GRANITE_AVAILABLE, forecast_horizon, use_granite, model_loaded,
                   fsTracker, sTracker, calls, loadVars, elsewhere>>

\* ForecastService.start()
Start ==
    /\ fsRunning' = TRUE
    /\ sRunning' = TRUE
    /\ op' = "start"
    /\ arg' = [none |-> TRUE]
    /\ ret' = [kind |-> "none"]
    /\ attempted' = <<>>
    /\ logs' = {}
    /\ UNCHANGED <<GRANITE_AVAILABLE, forecast_horizon, use_granite, model_loaded,
                   fsTracker, sTracker, calls, loadVars, elsewhere>>

(***************************************************************************)
(* predict(): inputs                                                       *)
(*                                                                         *)
(* A history is kept by what predict() reads of it: its length, the number *)
(* of calendar hours its entries fall into, and what is wrong with its     *)
(* timestamps:                                                             *)
(*   "none"    nothing;                                                    *)
(*   "old"     an unparseable timestamp, only before the last              *)
(*             ContextLength entries;                                      *)
(*   "recent"  an unparseable timestamp within the last ContextLength      *)
(*             entries;                                                    *)
(*   "mixed"   ISO-8601 timestamps with differing UTC offsets: each parses *)
(*             alone, the column does not become a DatetimeIndex and       *)
(*             resample raises.                                            *)
(***************************************************************************)
HistoryLengths ==
    {MinPoints - 1, MinPoints, ContextLength, SampleInterval, SampleInterval + 1}

HourCounts == {1, MinPoints, ContextLength}

History(len, malformed, hours) == [len |-> len, malformed |-> malformed, hours |-> hours]

\* the hour count is read only by the aggregation of a well-formed history
\* longer than SampleInterval; an old malformed entry needs len > ContextLength
Histories ==
    {History(n, "none", 1) : n \in {n \in HistoryLengths : n <= SampleInterval}}
    \cup {History(SampleInterval + 1, "none", k) : k \in HourCounts}
    \cup {History(MinPoints, "recent", 1), History(SampleInterval + 1, "recent", 1),
          History(SampleInterval + 1, "old", 1), History(SampleInterval + 1, "mixed", 1)}

\* exogenousData: absent, fewer than 10 points, usable, or unparseable
ExogenousKinds == {"absent", "short", "usable", "malformed"}

ForecastHorizons == {3, 30}

\* line 734
Steps(horizon) == Min(horizon, MaxHorizon)

\* raw output of the primary pipeline: rows of scalars or nested lists
Leaf(fin) == [leaf |-> TRUE, fin |-> fin, items |-> <<>>]
Node(items) == [leaf |-> FALSE, fin |-> FALSE, items |-> items]

Flat(k) == [i \in 1..k |-> Leaf(TRUE)]
FlatWithNonFinite(k, pos) == [i \in 1..k |-> Leaf(i # pos)]

RawOutputKinds ==
    {"flat", "nested", "flat_nonfinite", "nested_nonfinite", "all_nonfinite"}

RawOutput(kind, steps) ==
    CASE kind = "flat" -> Flat(steps + 1)
      [] kind = "nested" -> <<Node(Flat(steps + 1))>>
      [] kind = "flat_nonfinite" -> FlatWithNonFinite(steps, 1)
      [] kind = "nested_nonfinite" -> <<Node(FlatWithNonFinite(steps + 1, 2))>>
      [] OTHER -> [i \in 1..steps |-> Leaf(FALSE)]

\* what the environment decides during one predict() call:
\*   loadOk   from_pretrained and the pipeline construction succeed
\*   infer    granite_pipeline(df) raises, or the kind of rows it returns
\*   fitFails a numerical exception in the SARIMA fit
Environment(loadOk, infer, fitFails) ==
    [loadOk |-> loadOk, infer |-> infer, fitFails |-> fitFails]

(***************************************************************************)
(* predict(): the steps                                                    *)
(***************************************************************************)
NoValues == [ok |-> FALSE, n |-> 0]
Values(n) == [ok |-> TRUE, n |-> n]

\* mutant: the bar one point too low
InsufficientData_OffByOne(n) == n < MinPoints - 1

\* line 719: the minimum data bar
InsufficientData(n) == n < MinPoints

\* mutant: a history of exactly sampleInterval points is aggregated too
ShouldAggregate_AtThreshold(h, aggregateData) == aggregateData /\ h.len >= SampleInterval

\* lines 727 / 801 / 836
ShouldAggregate(h, aggregateData) == aggregateData /\ h.len > SampleInterval

\* aggregateHourlyData: one point per non-empty calendar hour; on any
\* exception (pd.to_datetime or resample raising) the input itself
AggregateHourlyData(h) ==
    IF h.len = 0 THEN h
    ELSE IF h.malformed # "none" THEN h
    ELSE [len |-> h.hours, malformed |-> "none", hours |-> h.hours]


\* _sanitize_predictions: depth-first flattening with an explicit stack (its
\* top is the last element), non-finite scalars dropped, at most limit kept
RECURSIVE SanitizeLoop(_, _, _)
SanitizeLoop(stack, sanitized, limit) ==
    IF stack = <<>> \/ Len(sanitized) >= limit THEN sanitized
    ELSE LET current == stack[Len(stack)]
             rest == SubSeq(stack, 1, Len(stack) - 1)
         IN  IF ~current.leaf
             THEN SanitizeLoop(rest \o Reverse(current.items), sanitized, limit)
             ELSE IF ~current.fin
             THEN SanitizeLoop(rest, sanitized, limit)
             ELSE SanitizeLoop(rest, Append(sanitized, current), limit)

SanitizePredictions(raw, limit) ==
    LET sanitized == SanitizeLoop(<<raw>>, <<>>, limit)
    IN  SubSeq(sanitized, 1, Min(limit, Len(sanitized)))

\* _granite_forecast, lines 506-518: the first steps rows, sanitized
ExtractPredictions(rows, steps) ==
    SanitizePredictions(Node(SubSeq(rows, 1, Min(steps, Len(rows)))), steps)

\* the step counts that occur, and the number of values the extraction keeps
\* for each kind of raw output (computed once)
HorizonSteps == {Steps(horizon) : horizon \in ForecastHorizons \cup {MaxHorizon}}

ExtractedLength ==
    [kind \in RawOutputKinds, steps \in HorizonSteps |->
        Len(ExtractPredictions(RawOutput(kind, steps), steps))]

\* mutant: a failed load leaves the primary enabled
LoadGraniteModel_StaysEnabled(loaded, useGranite, loadOk) ==
    IF loaded \/ ~GRANITE_AVAILABLE
    THEN [ran |-> FALSE, loaded |-> loaded, use_granite |-> useGranite]
    ELSE [ran |-> TRUE, loaded |-> loadOk, use_granite |-> useGranite]

\* _load_granite_model: [ran, loaded, use_granite] after the call
LoadGraniteModel(loaded, useGranite, loadOk) ==
    IF loaded \/ ~GRANITE_AVAILABLE
    THEN [ran |-> FALSE, loaded |-> loaded, use_granite |-> useGranite]
    ELSE IF loadOk
    THEN [ran |-> TRUE, loaded |-> TRUE, use_granite |-> useGranite]
    ELSE [ran |-> TRUE, loaded |-> FALSE, use_granite |-> FALSE]

\* _granite_forecast after the load: the values returned, or none
GraniteForecast(working, steps, loaded, env) ==
    IF ~loaded THEN NoValues
    ELSE IF working.malformed = "recent" THEN NoValues   \* pd.to_datetime raises, caught
    ELSE IF env.infer = "raises" THEN NoValues           \* caught at line 529
    ELSE LET size == ExtractedLength[env.infer, steps]
         IN  IF size = 0 THEN NoValues ELSE Values(size)

\* _simpleSarimaForecast / _statsmodelsSarimaForecast: steps values, also
\* when the fit raises (np.full(steps, mean of the last 10))
SarimaPredictions(steps, fitFails) ==
    IF fitFails THEN Values(steps) ELSE Values(steps)

\* SarimaFallbackService.forecast through _sarima_fallback_forecast
SarimaFallbackForecast(working, steps, running, env) ==
    IF ~running THEN NoValues
    ELSE IF working.len < MinPoints THEN NoValues
    ELSE IF working.malformed \in {"old", "recent"}
    THEN NoValues                                        \* pd.to_datetime raises, caught
    ELSE SarimaPredictions(steps, env.fitFails)

\* _prepare_series + _exponential_smoothing_forecast (_simple_forecast when
\* Holt-Winters raises): raised |-> TRUE when the exception escapes
NaiveForecast(working, steps) ==
    IF working.len = 0
    THEN [raised |-> TRUE, values |-> NoValues]          \* workingData[-1], line 781
    ELSE IF working.malformed = "recent"
    THEN [raised |-> TRUE, values |-> NoValues]          \* _prepare_series raises
    ELSE [raised |-> FALSE, values |-> Values(steps)]

\* lines 748 and 840: the tag of the primary, and the tags holding 'Granite'
GraniteTag == "IBM Granite TTM-R2"
NaiveTag == "Exponential Smoothing (Holt-Winters)"

\* mutant: the tertiary branch leaves the tag it found
ModelUsed_NaiveUntagged(graniteOk, sarimaOk, naiveRan) ==
    IF sarimaOk THEN SarimaGetModelInfo.modelType
    ELSE IF graniteOk THEN GraniteTag
    ELSE "unknown"

\* lines 739, 748, 764, 776: model_used at the end of the three branches
ModelUsed(graniteOk, sarimaOk, naiveRan) ==
    IF naiveRan THEN NaiveTag
    ELSE IF sarimaOk THEN SarimaGetModelInfo.modelType
    ELSE IF graniteOk THEN GraniteTag
    ELSE "unknown"

\* line 840: 'granite' if 'Granite' in model_used else 'statistical'
ModelType(model_used) ==
    IF model_used \in {GraniteTag} THEN "granite" ELSE "statistical"

\* exogenousData as applyHumidityCorrection sees it
ExogenousHistory(exogenous) ==
    [len |-> IF exogenous = "short" THEN MinExogenousPoints - 1 ELSE MinExogenousPoints,
     hourly |-> <<60>>,
     usable |-> exogenous # "malformed"]

\* whether applyHumidityCorrection adds a correction to a forecast, for each
\* kind of exogenousData passed to it
HumidityCorrected ==
    [exogenous \in ExogenousKinds \ {"absent"} |->
        ApplyHumidityCorrection(<<20>>, ExogenousHistory(exogenous)).applied] @@ <<>>

\* lines 790-798: the correction step; corrected tells whether the values
\* returned by applyHumidityCorrection carry a correction
HumidityCorrection(exogenous) ==
    IF exogenous = "absent"
    THEN [flag |-> FALSE, corrected |-> FALSE]
    ELSE [flag |-> TRUE, corrected |-> HumidityCorrected[exogenous]]

\* predict(): everything the call decides, from the state before it
PredictOutcome(h, aggregateData, exogenous, env) ==
    LET unchanged == [use_granite |-> use_granite, model_loaded |-> model_loaded,
                      useFallback |-> useFallback, loads |-> 0]
    IN
    IF InsufficientData(h.len)
    THEN unchanged @@ [ret |-> [kind |-> "none"], attempted |-> <<>>]
    ELSE
    LET working == IF ShouldAggregate(h, aggregateData) THEN AggregateHourlyData(h) ELSE h
        steps == Steps(forecast_horizon)
        tryGranite == use_granite /\ working.len >= ContextLength
        load == IF tryGranite
                THEN LoadGraniteModel(model_loaded, use_granite, env.loadOk)
                ELSE [ran |-> FALSE, loaded |-> model_loaded, use_granite |-> use_granite]
        granite == [src |-> "granite"] @@
                   (IF tryGranite
                    THEN GraniteForecast(working, steps, load.loaded, env)
                    ELSE NoValues)
        trySarima == ~granite.ok
        sarima == [src |-> "sarima"] @@
                  (IF trySarima
                   THEN SarimaFallbackForecast(working, steps, sRunning, env)
                   ELSE NoValues)
        tryNaive == ~granite.ok /\ ~sarima.ok
        naive == IF tryNaive THEN NaiveForecast(working, steps)
                 ELSE [raised |-> FALSE, values |-> NoValues]
        model_used == ModelUsed(granite.ok, sarima.ok, tryNaive)
        forecast_values == IF granite.ok THEN granite
                           ELSE IF sarima.ok THEN sarima
                           ELSE [src |-> "naive"] @@ naive.values
        humidity == HumidityCorrection(exogenous)
        tried == (IF tryGranite THEN <<"granite">> ELSE <<>>)
                 \o (IF trySarima THEN <<"sarima">> ELSE <<>>)
                 \o (IF tryNaive THEN <<"naive">> ELSE <<>>)
        after == [use_granite |-> load.use_granite, model_loaded |-> load.loaded,
                  useFallback |-> IF sarima.ok THEN TRUE ELSE useFallback,
                  loads |-> IF load.ran THEN 1 ELSE 0]
    IN
    IF naive.raised
    THEN after @@ [ret |-> [kind |-> "none"], attempted |-> tried]   \* line 849
    ELSE after @@
         [ret |-> [kind |-> "forecast",
                   model |-> model_used,
                   model_type |-> ModelType(model_used),
                   source |-> forecast_values.src,
                   nPredictions |-> forecast_values.n,
                   forecast_horizon_hours |-> steps,
                   context_size |-> working.len,
                   original_data_points |-> h.len,
                   aggregated |-> ShouldAggregate(h, aggregateData),
                   humidity_correction_applied |-> humidity.flag,
                   humidity_corrected |-> humidity.corrected],
          attempted |-> tried]

\* ForecastService.predict(data_history, aggregateData, exogenousData)
Predict(h, aggregateData, exogenous, env) ==
    /\ LET o == PredictOutcome(h, aggregateData, exogenous, env)
       IN  /\ use_granite' = o.use_granite
           /\ model_loaded' = o.model_loaded
           /\ useFallback' = o.useFallback
           /\ loadRuns' = loadRuns + o.loads
           /\ ret' = o.ret
           /\ attempted' = o.attempted
    /\ op' = "predict"
    /\ arg' = [len |-> h.len, aggregateData |-> aggregateData,
               workingLen |-> IF ShouldAggregate(h, aggregateData)
                              THEN AggregateHourlyData(h).len ELSE h.len]
    /\ logs' = {}
    /\ UNCHANGED <<GRANITE_AVAILABLE, forecast_horizon, fsRunning, sRunning,
                   predictionHistory, actualHistory, currentMae, sTracker, calls, pc,
                   elsewhere>>

(***************************************************************************)
(* Spec, SpecPredict: the operations of one service, one after the other   *)
(***************************************************************************)
\* (predicted, actual) pairs fed to the tracker: errors 0 and 10, so that a
\* window of two reaches 0, exactly the threshold, and above it
Samples == {<<20, 20>>, <<40, 30>>}

Threads == 1..NumThreads

\* a caller between calls holds no local value
NoLocals == [none |-> TRUE]

\* app.py: the metrics update_metric_forecast is called for
Metrics == {"temperature", "humidity"}

\* state[forecast_key]: empty, the service's forecast, or the linear
\* extrapolation last + slope * step
NoForecast == [kind |-> "empty", n |-> 0, last |-> 0, slope |-> 0, nan |-> FALSE]
ServiceForecast(n) == [kind |-> "service", n |-> n, last |-> 0, slope |-> 0, nan |-> FALSE]
LinearForecast(n, last, slope, nan) ==
    [kind |-> "linear", n |-> n, last |-> last, slope |-> slope, nan |-> nan]

\* the state after construction, but for the record of the last call
InitFields(horizons, statsmodels) ==
    /\ GRANITE_AVAILABLE \in BOOLEAN
    /\ forecast_horizon \in horizons
    /\ use_granite = GRANITE_AVAILABLE
    /\ model_loaded = FALSE
    /\ fsRunning = TRUE
    /\ sRunning = TRUE
    /\ useFallback = ~GRANITE_AVAILABLE
    /\ currentMae = ZeroMae
    /\ predictionHistory = <<>>
    /\ actualHistory = <<>>
    /\ sPredictionHistory = <<>>
    /\ sActualHistory = <<>>
    /\ sCurrentMae = ZeroMae
    /\ fallbackActive = FALSE
    /\ attempted = <<>>
    /\ logs = {}
    /\ calls = 0
    /\ pc = [t \in Threads |-> "idle"]
    /\ loadRuns = 0
    /\ STATSMODELS_AVAILABLE \in statsmodels
    /\ configS = SeasonalPeriod
    /\ fsLock = 0
    /\ sLock = 0
    /\ locals = [t \in Threads |-> NoLocals]
    /\ stateForecast = [metric \in Metrics |-> NoForecast]

\* predict() on one of the given inputs; the environment's choices are each
\* offered only on the path that reads them
PredictStepOver(histories, exogenousKinds, rawOutputKinds) ==
    \E h \in histories, aggregateData \in BOOLEAN, exogenous \in exogenousKinds :
        LET working == IF ShouldAggregate(h, aggregateData)
                       THEN AggregateHourlyData(h) ELSE h
            tryGranite == /\ ~InsufficientData(h.len)
                          /\ use_granite /\ working.len >= ContextLength
            trySarimaFit == /\ ~InsufficientData(h.len)
                            /\ sRunning /\ working.len >= MinPoints
                            /\ working.malformed \notin {"old", "recent"}
        IN  \E loadOk \in (IF tryGranite /\ ~model_loaded THEN BOOLEAN ELSE {TRUE}) :
            \E infer \in (IF tryGranite /\ loadOk /\ working.malformed # "recent"
                           THEN {"raises"} \cup rawOutputKinds ELSE {"flat"}) :
            \E fitFails \in (IF trySarimaFit /\ (~tryGranite \/ ~loadOk
                                   \/ infer \in {"raises", "all_nonfinite"})
                              THEN BOOLEAN ELSE {FALSE}) :
                Predict(h, aggregateData, exogenous, Environment(loadOk, infer, fitFails))

UpdateStepOver(samples, maxCalls) ==
    /\ calls < maxCalls
    /\ \E s \in samples : UpdateMaeTracking(s[1], s[2])

\* Spec: the default horizon; well-formed histories below and at the minimum,
\* at the context length, and long enough to be aggregated
MainHistories ==
    {History(MinPoints - 1, "none", 1), History(MinPoints, "none", 1),
     History(ContextLength, "none", 1),
     History(SampleInterval + 1, "none", ContextLength)}

InitOver(horizons, statsmodels) ==
    /\ InitFields(horizons, statsmodels)
    /\ op = "init"
    /\ arg = [none |-> TRUE]
    /\ ret = [kind |-> "none"]

Init == InitOver({MaxHorizon}, {TRUE})

PredictStep == PredictStepOver(MainHistories, {"absent"}, {"flat"})

UpdateStep == UpdateStepOver(Samples, MaxCalls)

Next ==
    \/ PredictStep
    \/ UpdateStep
    \/ ShouldUseFallback
    \/ GetFallbackInfo
    \/ GetModelInfo
    \/ ResetMaeTracking
    \/ Stop
    \/ Start

Spec == Init /\ [][Next]_vars

\* SpecPredict: horizons below and above the cap, every input kind
InitPredict == InitOver(ForecastHorizons, {TRUE})

PredictAnyStep == PredictStepOver(Histories, ExogenousKinds, RawOutputKinds)

UpdateOnceStep == UpdateStepOver({<<40, 30>>}, 1)

NextPredict ==
    \/ PredictAnyStep
    \/ UpdateOnceStep
    \/ ShouldUseFallback
    \/ GetFallbackInfo
    \/ GetModelInfo
    \/ ResetMaeTracking
    \/ Stop
    \/ Start

SpecPredict == InitPredict /\ [][NextPredict]_vars

(***************************************************************************)
(* SpecLoad: concurrent predict() callers, through the lazy load           *)
(*   l741     line 741: use_granite and enough context?                    *)
(*   l422     line 422: already loaded, or library missing?                *)
(*   loading  lines 428-441: from_pretrained and pipeline construction     *)
(*   l468     line 468: loaded?                                            *)
(*   infer    lines 473-527: the inference                                 *)
(*   sarima   lines 754-767: the seasonal fallback                         *)
(***************************************************************************)
serviceVars == <<GRANITE_AVAILABLE, forecast_horizon, fsRunning, sRunning,
                 predictionHistory, actualHistory, currentMae, sTracker,
                 observed, calls, sarimaConfig, fsLock, sLock, locals, appVars>>

Call(t) ==
    /\ pc[t] = "idle"
    /\ pc' = [pc EXCEPT ![t] = "l741"]
    /\ UNCHANGED <<serviceVars, use_granite, model_loaded, useFallback, loadRuns>>

\* line 741, on a history with or without enough context
CheckGranite(t) ==
    /\ pc[t] = "l741"
    /\ \E enough \in BOOLEAN :
          pc' = [pc EXCEPT ![t] = IF use_granite /\ enough THEN "l422" ELSE "sarima"]
    /\ UNCHANGED <<serviceVars, use_granite, model_loaded, useFallback, loadRuns>>

\* line 422: no lock is taken
LoadCheck(t) ==
    /\ pc[t] = "l422"
    /\ IF model_loaded \/ ~GRANITE_AVAILABLE
       THEN /\ pc' = [pc EXCEPT ![t] = "l468"]
            /\ UNCHANGED loadRuns
       ELSE /\ pc' = [pc EXCEPT ![t] = "loading"]
            /\ loadRuns' = loadRuns + 1
    /\ UNCHANGED <<serviceVars, use_granite, model_loaded, useFallback>>

\* line 443 on success, line 448 on an exception
LoadFinish(t) ==
    /\ pc[t] = "loading"
    /\ \E loadOk \in BOOLEAN :
          IF loadOk
          THEN model_loaded' = TRUE /\ UNCHANGED use_granite
          ELSE use_granite' = FALSE /\ UNCHANGED model_loaded
    /\ pc' = [pc EXCEPT ![t] = "l468"]
    /\ UNCHANGED <<serviceVars, useFallback, loadRuns>>

LoadedCheck(t) ==
    /\ pc[t] = "l468"
    /\ pc' = [pc EXCEPT ![t] = IF model_loaded THEN "infer" ELSE "sarima"]
    /\ UNCHANGED <<serviceVars, use_granite, model_loaded, useFallback, loadRuns>>

Infer(t) ==
    /\ pc[t] = "infer"
    /\ \E ok \in BOOLEAN : pc' = [pc EXCEPT ![t] = IF ok THEN "idle" ELSE "sarima"]
    /\ UNCHANGED <<serviceVars, use_granite, model_loaded, useFallback, loadRuns>>

\* line 765 when the fallback produced values (it may also decline)
SarimaFallback(t) ==
    /\ pc[t] = "sarima"
    /\ \E produced \in BOOLEAN : useFallback' = (produced \/ useFallback)
    /\ pc' = [pc EXCEPT ![t] = "idle"]
    /\ UNCHANGED <<serviceVars, use_granite, model_loaded, loadRuns>>

NextLoad ==
    \E t \in Threads :
        \/ Call(t)
        \/ CheckGranite(t)
        \/ LoadCheck(t)
        \/ LoadFinish(t)
        \/ LoadedCheck(t)
        \/ Infer(t)
        \/ SarimaFallback(t)

SpecLoad == Init /\ [][NextLoad]_vars

(***************************************************************************)
(* SpecSarima: the public operations of the fallback service, called       *)
(* directly, with and without statsmodels                                  *)
(***************************************************************************)
InitSarima == InitOver({MaxHorizon}, BOOLEAN)

SarimaForecastStep ==
    \E in \in SeriesInputs, timestamps \in TimestampKinds, steps \in SarimaSteps :
        LET fits == sRunning /\ in[2] >= MinPoints /\ timestamps = "ok"
        IN  \E libFit \in (IF fits /\ STATSMODELS_AVAILABLE THEN {"ok", "raises"}
                                                             ELSE {"raises"}) :
            \E arFit \in (IF fits /\ libFit = "raises" THEN ArFits ELSE {"zeros"}) :
                SarimaForecast(in, timestamps, steps, libFit, arFit)

SarimaUpdateStep == SarimaUpdate(40, 30)

NextSarima ==
    \/ SarimaForecastStep
    \/ SarimaUpdateStep
    \/ ResetMaeTracking
    \/ SarimaStop
    \/ SarimaStart

SpecSarima == InitSarima /\ [][NextSarima]_vars

(***************************************************************************)
(* SpecNumeric: the numeric functions, each applied once to an input drawn *)
(* by the initial state                                                    *)
(***************************************************************************)
SmallSeries ==
    UNION {[1..n -> 0..MaxSeriesValue] : n \in 1..MaxSeriesLen}

Orders == 0..MaxOrder
Periods == 1..(MaxSeriesLen - 1)

\* forecast deltas: zeros, and deltas that are not zero
ForecastDeltas == {Zeros(k) : k \in 1..MaxOrder} \cup {<<1>>, <<1, 2>>}

ApplyDifferencingInputs ==
    {[fn |-> "_applyDifferencing", series |-> x, d |-> d, s |-> s, D |-> D] :
        x \in SmallSeries, d \in Orders, s \in Periods, D \in Orders}

InvertDifferencingInputs ==
    {[fn |-> "_invertDifferencing", forecasts |-> f, originalSeries |-> x,
      d |-> d, s |-> s, D |-> D] :
        f \in ForecastDeltas, x \in SmallSeries, d \in Orders, s \in Periods,
        D \in 0..1}

\* humidity histories: too short, unusable, and hourly values that are
\* constant, rising, falling, and longer than the 24-hour window
HourlyHumidities ==
    {[i \in 1..n |-> h] : n \in {1, 2, HumidityWindow + 1}, h \in {0, 30, 50, 90, 100}}
    \cup {<<40, 60>>, <<90, 95, 100>>, <<10, 5, 0>>,
          [i \in 1..(HumidityWindow + 1) |-> IF i = 1 THEN 0 ELSE 90]}

HumidityHistories ==
    {[len |-> MinExogenousPoints - 1, hourly |-> <<50>>, usable |-> TRUE],
     [len |-> MinExogenousPoints, hourly |-> <<50>>, usable |-> FALSE],
     [len |-> MinExogenousPoints, hourly |-> <<>>, usable |-> TRUE]}
    \cup {[len |-> n, hourly |-> hourly, usable |-> TRUE] :
             n \in {MinExogenousPoints, SampleInterval + 1}, hourly \in HourlyHumidities}

TemperaturePredictions == {<<25>>, <<25, 25, 25>>, <<20, 30>>}

HumidityCorrectionInputs ==
    {[fn |-> "applyHumidityCorrection", tempPredictions |-> t, humidityHistory |-> h] :
        t \in TemperaturePredictions, h \in HumidityHistories}

\* histories passed to aggregateHourlyData, with the time from the first to
\* the last timestamp: empty; half an hour of one-minute samples inside one
\* calendar hour, across the turn of an hour, and with an unparseable
\* timestamp; one hour and two hours of one-second samples
SecondsPerHour == 3600

AggregateInputs ==
    {[fn |-> "aggregateHourlyData", history |-> History(0, "none", 0), spanSeconds |-> 0],
     [fn |-> "aggregateHourlyData", history |-> History(30, "none", 1), spanSeconds |-> 1740],
     [fn |-> "aggregateHourlyData", history |-> History(30, "none", 2), spanSeconds |-> 1740],
     [fn |-> "aggregateHourlyData", history |-> History(30, "recent", 1), spanSeconds |-> 1740],
     [fn |-> "aggregateHourlyData", history |-> History(SampleInterval + 1, "none", 2),
      spanSeconds |-> SecondsPerHour],
     [fn |-> "aggregateHourlyData", history |-> History(2 * SampleInterval, "old", 3),
      spanSeconds |-> 2 * SecondsPerHour - 1],
     [fn |-> "aggregateHourlyData", history |-> History(2 * SampleInterval, "none", 3),
      spanSeconds |-> 2 * SecondsPerHour - 1]}

\* lines 800-828 of forecastService.py: the timestamps of the predictions.
\* Timestamps are seconds; interval_hours is kept as seconds / 3600.
IntervalSeconds(aggregated, workingTimestamps) ==
    IF aggregated THEN SecondsPerHour
    ELSE IF Len(workingTimestamps) >= 2
    THEN workingTimestamps[Len(workingTimestamps)]
           - workingTimestamps[Len(workingTimestamps) - 1]
    ELSE SecondsPerHour

\* int(x / 3600), rounding towards zero
WholeHours(seconds) ==
    IF seconds >= 0 THEN seconds \div SecondsPerHour
    ELSE 0 - ((0 - seconds) \div SecondsPerHour)

\* mutant: the first prediction is stamped with the last input timestamp
FuturePrediction_FromZero(last_timestamp, interval, i) ==
    [timestamp |-> last_timestamp + interval * (i - 1),
     horizon_step |-> i,
     hours_ahead |-> WholeHours(interval * i)]

\* lines 815-828: the i-th entry (i = 1..n; the loop index is i - 1)
FuturePrediction(last_timestamp, interval, i) ==
    [timestamp |-> last_timestamp + interval * i,
     horizon_step |-> i,
     hours_ahead |-> WholeHours(interval * i)]

FuturePredictions(aggregated, workingTimestamps, n) ==
    LET last_timestamp == workingTimestamps[Len(workingTimestamps)]
        interval == IntervalSeconds(aggregated, workingTimestamps)
    IN  [i \in 1..n |-> FuturePrediction(last_timestamp, interval, i)]

\* the last timestamps of a working series: one point, one-second and
\* one-minute and one-hour spacing, a repeated and a descending timestamp
WorkingTimestamps ==
    {<<7200>>, <<7199, 7200>>, <<7080, 7140, 7200>>, <<0, 3600, 7200>>,
     <<7200, 7200>>, <<7260, 7200>>}

FuturePredictionsInputs ==
    {[fn |-> "future_timestamps", aggregated |-> a, workingTimestamps |-> w, n |-> n] :
        a \in BOOLEAN, w \in WorkingTimestamps, n \in {1, 3, MaxHorizon}}

InitNumeric ==
    /\ InitFields({MaxHorizon}, {TRUE})
    /\ op = "input"
    /\ arg \in ApplyDifferencingInputs \cup InvertDifferencingInputs
                 \cup HumidityCorrectionInputs \cup AggregateInputs
                 \cup FuturePredictionsInputs
    /\ ret = [kind |-> "none"]

numericFrame == <<GRANITE_AVAILABLE, forecast_horizon, use_granite, model_loaded,
                  fsRunning, sRunning, fsTracker, sTracker, arg, attempted, logs,
                  calls, loadVars, elsewhere>>

ApplyDifferencingCall ==
    /\ op = "input" /\ arg.fn = "_applyDifferencing"
    /\ op' = "_applyDifferencing"
    /\ ret' = [kind |-> "series",
               values |-> ApplyDifferencing(arg.series, arg.d, arg.s, arg.D)]
    /\ UNCHANGED numericFrame

InvertDifferencingCall ==
    /\ op = "input" /\ arg.fn = "_invertDifferencing"
    /\ op' = "_invertDifferencing"
    /\ ret' = [kind |-> "series",
               values |-> InvertDifferencing(arg.forecasts, arg.originalSeries,
                                             arg.d, arg.s, arg.D)]
    /\ UNCHANGED numericFrame

ApplyHumidityCorrectionCall ==
    /\ op = "input" /\ arg.fn = "applyHumidityCorrection"
    /\ op' = "applyHumidityCorrection"
    /\ LET r == ApplyHumidityCorrection(arg.tempPredictions, arg.humidityHistory)
       IN  ret' = [kind |-> "temperatures", applied |-> r.applied, values |-> r.values]
    /\ UNCHANGED numericFrame

AggregateHourlyDataCall ==
    /\ op = "input" /\ arg.fn = "aggregateHourlyData"
    /\ op' = "aggregateHourlyData"
    /\ ret' = [kind |-> "history", history |-> AggregateHourlyData(arg.history)]
    /\ UNCHANGED numericFrame

FuturePredictionsCall ==
    /\ op = "input" /\ arg.fn = "future_timestamps"
    /\ op' = "future_timestamps"
    /\ ret' = [kind |-> "predictions",
               predictions |-> FuturePredictions(arg.aggregated, arg.workingTimestamps,
                                                 arg.n)]
    /\ UNCHANGED numericFrame

NextNumeric ==
    \/ FuturePredictionsCall
    \/ ApplyDifferencingCall
    \/ InvertDifferencingCall
    \/ ApplyHumidityCorrectionCall
    \/ AggregateHourlyDataCall

SpecNumeric == InitNumeric /\ [][NextNumeric]_vars

(***************************************************************************)
(* SpecApp: the dashboard's update_metric_forecast for the two metrics of  *)
(* one rack, with the service stopped and started in between               *)
(*                                                                         *)
(* A history is [samples, nan, last, previous]: the number of one-second   *)
(* samples of state[history_key], whether the payloads were all 'nan'      *)
(* (float(payload), app.py lines 1512 and 1520), and its last two values.  *)
(***************************************************************************)
MinSamples == 3600
AppForecastHorizon == 24

AppHistory(samples, nan, pair) ==
    [samples |-> samples, nan |-> nan, last |-> pair[1], previous |-> pair[2]]

\* one sample, just below and at one hour, two hours, and the full week
AppSampleCounts ==
    {1, MinSamples - 1, MinSamples, MinSamples + 1, ContextLength * SampleInterval}

AppHistories ==
    {AppHistory(n, FALSE, pair) : n \in AppSampleCounts, pair \in Samples}
    \cup {AppHistory(n, TRUE, <<0, 0>>) : n \in {MinSamples - 1, MinSamples + 1}}

\* lines 674-680: dataHistory, one point per sample one second apart; its
\* hourly means are dropped when every sample of the hour is nan
DataHistory(history) ==
    History(history.samples, "none",
            IF history.nan THEN 0
            ELSE IF history.samples >= ContextLength * SampleInterval THEN ContextLength
            ELSE 2)

\* lines 728-740: the linear extrapolation
LinearExtrapolation(history) ==
    LinearForecast(AppForecastHorizon, history.last,
                   IF history.samples >= 2 THEN history.last - history.previous ELSE 0,
                   history.nan)

\* update_metric_forecast(state, metric) once predict() has answered with o
\* (o.ret.kind = "skipped" when the service was not asked)
UpdateMetricForecast(metric, history, o) ==
    /\ use_granite' = o.use_granite
    /\ model_loaded' = o.model_loaded
    /\ loadRuns' = loadRuns + o.loads
    /\ attempted' = o.attempted
    /\ IF o.ret.kind = "forecast"
       THEN \* lines 698-716
            /\ stateForecast' =
                  [stateForecast EXCEPT ![metric] =
                      ServiceForecast(Min(o.ret.nPredictions, AppForecastHorizon))]
            /\ predictionHistory' = DequeAppend(predictionHistory, history.last, MaeWindowSize)
            /\ actualHistory' = DequeAppend(actualHistory, history.previous, MaeWindowSize)
            /\ currentMae' = CalculateMae(predictionHistory', actualHistory')
            /\ SarimaUpdateMaeTracking(history.last, history.previous)
            /\ LET r == SarimaShouldUseFallback(SomeMae(currentMae'), fallbackActive)
               IN  /\ fallbackActive' = r.active
                   /\ useFallback' = r.ret
                   /\ logs' = r.logs \cup FsTransitionLogs(r.ret, o.useFallback)
            /\ calls' = calls + 1
       ELSE \* lines 727-740
            /\ stateForecast' = [stateForecast EXCEPT ![metric] = LinearExtrapolation(history)]
            /\ useFallback' = o.useFallback
            /\ logs' = {}
            /\ UNCHANGED <<predictionHistory, actualHistory, currentMae, sTracker, calls>>
    /\ op' = "update_metric_forecast"
    /\ arg' = [metric |-> metric, samples |-> history.samples, predict |-> o.ret.kind]
    /\ ret' = [kind |-> "none"]
    /\ UNCHANGED <<GRANITE_AVAILABLE, forecast_horizon, fsRunning, sRunning, pc,
                   sarimaConfig, lockVars>>

\* the service is asked from one hour of samples on (line 665); humidity is
\* passed as exogenous data for temperature when it has an hour of samples
UpdateMetricForecastStep ==
    /\ calls < MaxCalls
    /\ \E metric \in Metrics, history \in AppHistories :
        IF history.samples < MinSamples
        THEN UpdateMetricForecast(metric, history,
                 [use_granite |-> use_granite, model_loaded |-> model_loaded,
                  useFallback |-> useFallback, loads |-> 0,
                  ret |-> [kind |-> "skipped"], attempted |-> <<>>])
        ELSE LET h == DataHistory(history)
                 working == IF ShouldAggregate(h, TRUE) THEN AggregateHourlyData(h) ELSE h
                 tryGranite == use_granite /\ working.len >= ContextLength
             IN  \E exogenous \in (IF metric = "temperature"
                                    THEN {"absent", "usable"} ELSE {"absent"}) :
                 \E loadOk \in (IF tryGranite /\ ~model_loaded THEN BOOLEAN ELSE {TRUE}) :
                 \E infer \in (IF tryGranite /\ loadOk THEN {"raises", "flat"} ELSE {"flat"}) :
                     UpdateMetricForecast(metric, history,
                         PredictOutcome(h, TRUE, exogenous,
                                        Environment(loadOk, infer, FALSE)))

NextApp ==
    \/ UpdateMetricForecastStep
    \/ ResetMaeTracking
    \/ Stop
    \/ Start

SpecApp == Init /\ [][NextApp]_vars

(***************************************************************************)
(* SpecLock: concurrent callers of the error tracker, one step per access  *)
(* to a shared field or lock.  Positions of a caller:                      *)
(*   l897  updateMaeTracking entered, waiting for ForecastService._lock    *)
(*   l898  lock held; lines 898-904: the appends and currentMae            *)
(*   l907  line 907: sarimaFallback.updateMaeTracking, waiting for its lock*)
(*   s227  SarimaFallbackService._lock held; lines 227-236                 *)
(*   l910  line 910: sarimaFallback.shouldUseFallback(self.currentMae)     *)
(*   l912  lines 912-913: compare with useFallback and write it            *)
(*   l919  line 919: return, releasing the lock                            *)
(*   l765  predict(), line 765: self.useFallback = True                    *)
(*   l936  shouldUseFallback(), line 936: self.currentMae has been read    *)
(*   l945  getFallbackInfo(): the fields have been read                    *)
(*   d226  SarimaFallbackService.updateMaeTracking called on the service   *)
(*         itself, waiting for SarimaFallbackService._lock (line 226)      *)
(*   d227  its lock held; lines 227-236                                    *)
(*   s664  resetMaeTracking, waiting for SarimaFallbackService._lock       *)
(*   s665  its lock held; lines 665-669                                    *)
(***************************************************************************)
lockFrame == <<GRANITE_AVAILABLE, forecast_horizon, use_granite, model_loaded,
               fsRunning, sRunning, observed, loadRuns, sarimaConfig, appVars>>

Goto(t, position) == pc' = [pc EXCEPT ![t] = position]
SetLocals(t, value) == locals' = [locals EXCEPT ![t] = value]

\* updateMaeTracking(predicted, actual) is called
UpdateEnterOver(t, samples, maxCalls) ==
    /\ pc[t] = "idle"
    /\ calls < maxCalls
    /\ \E s \in samples :
          SetLocals(t, [predicted |-> s[1], actual |-> s[2], shouldFallback |-> FALSE])
    /\ Goto(t, "l897")
    /\ calls' = calls + 1
    /\ UNCHANGED <<fsTracker, sTracker, fsLock, sLock, lockFrame>>

UpdateEnter(t) == UpdateEnterOver(t, Samples, MaxCalls)

\* line 897: with self._lock
UpdateAcquire(t) ==
    /\ pc[t] = "l897"
    /\ fsLock = 0
    /\ fsLock' = t
    /\ Goto(t, "l898")
    /\ UNCHANGED <<fsTracker, sTracker, sLock, locals, calls, lockFrame>>

\* lines 898-904
UpdateAppend(t) ==
    /\ pc[t] = "l898"
    /\ predictionHistory' = DequeAppend(predictionHistory, locals[t].predicted, MaeWindowSize)
    /\ actualHistory' = DequeAppend(actualHistory, locals[t].actual, MaeWindowSize)
    /\ currentMae' = CalculateMae(predictionHistory', actualHistory')
    /\ Goto(t, "l907")
    /\ UNCHANGED <<useFallback, sTracker, fsLock, sLock, locals, calls, lockFrame>>

\* line 907, sarimaFallbackService.py line 226: with self._lock
SarimaUpdateAcquire(t) ==
    /\ pc[t] = "l907"
    /\ sLock = 0
    /\ sLock' = t
    /\ Goto(t, "s227")
    /\ UNCHANGED <<fsTracker, sTracker, fsLock, locals, calls, lockFrame>>

\* sarimaFallbackService.py lines 227-236, releasing the lock
SarimaUpdateAppend(t) ==
    /\ pc[t] = "s227"
    /\ SarimaUpdateMaeTracking(locals[t].predicted, locals[t].actual)
    /\ sLock' = 0
    /\ Goto(t, "l910")
    /\ UNCHANGED <<fsTracker, fallbackActive, fsLock, locals, calls, lockFrame>>

\* line 910: shouldFallback = self.sarimaFallback.shouldUseFallback(self.currentMae),
\* which writes fallbackActive
UpdateShouldUseFallback(t) ==
    /\ pc[t] = "l910"
    /\ LET r == SarimaShouldUseFallback(SomeMae(currentMae), fallbackActive)
       IN  /\ fallbackActive' = r.active
           /\ SetLocals(t, [locals[t] EXCEPT !.shouldFallback = r.ret])
    /\ Goto(t, "l912")
    /\ UNCHANGED <<fsTracker, sPredictionHistory, sActualHistory, sCurrentMae,
                   fsLock, sLock, calls, lockFrame>>

\* lines 912-913
UpdateSetFlag(t) ==
    /\ pc[t] = "l912"
    /\ useFallback' = IF locals[t].shouldFallback # useFallback
                      THEN locals[t].shouldFallback ELSE useFallback
    /\ Goto(t, "l919")
    /\ UNCHANGED <<predictionHistory, actualHistory, currentMae, sTracker,
                   fsLock, sLock, locals, calls, lockFrame>>

\* mutant: the call returns without releasing the lock
UpdateRelease_KeepsLock(t) ==
    /\ pc[t] = "l919"
    /\ SetLocals(t, NoLocals)
    /\ Goto(t, "idle")
    /\ UNCHANGED <<fsTracker, sTracker, fsLock, sLock, calls, lockFrame>>

\* line 919
UpdateRelease(t) ==
    /\ pc[t] = "l919"
    /\ fsLock' = 0
    /\ SetLocals(t, NoLocals)
    /\ Goto(t, "idle")
    /\ UNCHANGED <<fsTracker, sTracker, sLock, calls, lockFrame>>

\* predict(): the SARIMA fallback has answered (line 763)
PredictSarimaAnswered(t) ==
    /\ pc[t] = "idle"
    /\ sRunning
    /\ Goto(t, "l765")
    /\ UNCHANGED <<fsTracker, sTracker, fsLock, sLock, locals, calls, lockFrame>>

\* predict(), line 765: self.useFallback = True, no lock taken
PredictSetFlag(t) ==
    /\ pc[t] = "l765"
    /\ useFallback' = TRUE
    /\ Goto(t, "idle")
    /\ UNCHANGED <<predictionHistory, actualHistory, currentMae, sTracker,
                   fsLock, sLock, locals, calls, lockFrame>>

\* ForecastService.shouldUseFallback(), line 936: self.currentMae is read
StatusRead(t) ==
    /\ pc[t] = "idle"
    /\ GRANITE_AVAILABLE
    /\ SetLocals(t, [graniteMae |-> currentMae])
    /\ Goto(t, "l936")
    /\ UNCHANGED <<fsTracker, sTracker, fsLock, sLock, calls, lockFrame>>

\* SarimaFallbackService.shouldUseFallback(graniteMae), no lock taken
StatusShouldUseFallback(t) ==
    /\ pc[t] = "l936"
    /\ fallbackActive' =
          SarimaShouldUseFallback(SomeMae(locals[t].graniteMae), fallbackActive).active
    /\ SetLocals(t, NoLocals)
    /\ Goto(t, "idle")
    /\ UNCHANGED <<fsTracker, sPredictionHistory, sActualHistory, sCurrentMae,
                   fsLock, sLock, calls, lockFrame>>

\* getFallbackInfo(), lines 945-950: the fields are read, no lock taken
InfoRead(t) ==
    /\ pc[t] = "idle"
    /\ SetLocals(t, [fallbackActive |-> useFallback, currentMae |-> currentMae])
    /\ Goto(t, "l945")
    /\ UNCHANGED <<fsTracker, sTracker, fsLock, sLock, calls, lockFrame>>

InfoReturn(t) ==
    /\ pc[t] = "l945"
    /\ SetLocals(t, NoLocals)
    /\ Goto(t, "idle")
    /\ UNCHANGED <<fsTracker, sTracker, fsLock, sLock, calls, lockFrame>>

\* SarimaFallbackService.updateMaeTracking(predicted, actual) is called on the
\* fallback service itself
SarimaDirectEnterOver(t, samples, maxCalls) ==
    /\ pc[t] = "idle"
    /\ calls < maxCalls
    /\ \E s \in samples : SetLocals(t, [predicted |-> s[1], actual |-> s[2]])
    /\ Goto(t, "d226")
    /\ calls' = calls + 1
    /\ UNCHANGED <<fsTracker, sTracker, fsLock, sLock, lockFrame>>

SarimaDirectEnter(t) == SarimaDirectEnterOver(t, Samples, MaxCalls)

\* sarimaFallbackService.py line 226: with self._lock
SarimaDirectAcquire(t) ==
    /\ pc[t] = "d226"
    /\ sLock = 0
    /\ sLock' = t
    /\ Goto(t, "d227")
    /\ UNCHANGED <<fsTracker, sTracker, fsLock, locals, calls, lockFrame>>

\* sarimaFallbackService.py lines 227-236, releasing the lock
SarimaDirectAppend(t) ==
    /\ pc[t] = "d227"
    /\ SarimaUpdateMaeTracking(locals[t].predicted, locals[t].actual)
    /\ sLock' = 0
    /\ SetLocals(t, NoLocals)
    /\ Goto(t, "idle")
    /\ UNCHANGED <<fsTracker, fallbackActive, fsLock, calls, lockFrame>>

\* SarimaFallbackService.resetMaeTracking() is called
ResetEnterOver(t, maxCalls) ==
    /\ pc[t] = "idle"
    /\ calls < maxCalls
    /\ Goto(t, "s664")
    /\ calls' = calls + 1
    /\ UNCHANGED <<fsTracker, sTracker, fsLock, sLock, locals, lockFrame>>

ResetEnter(t) == ResetEnterOver(t, MaxCalls)

\* sarimaFallbackService.py line 664: with self._lock
ResetAcquire(t) ==
    /\ pc[t] = "s664"
    /\ sLock = 0
    /\ sLock' = t
    /\ Goto(t, "s665")
    /\ UNCHANGED <<fsTracker, sTracker, fsLock, locals, calls, lockFrame>>

\* sarimaFallbackService.py lines 665-669, releasing the lock
ResetClear(t) ==
    /\ pc[t] = "s665"
    /\ sPredictionHistory' = <<>>
    /\ sActualHistory' = <<>>
    /\ sCurrentMae' = ZeroMae
    /\ fallbackActive' = FALSE
    /\ sLock' = 0
    /\ Goto(t, "idle")
    /\ UNCHANGED <<fsTracker, fsLock, locals, calls, lockFrame>>

NextLock ==
    \E t \in Threads :
        \/ UpdateEnter(t)
        \/ UpdateAcquire(t)
        \/ UpdateAppend(t)
        \/ SarimaUpdateAcquire(t)
        \/ SarimaUpdateAppend(t)
        \/ UpdateShouldUseFallback(t)
        \/ UpdateSetFlag(t)
        \/ UpdateRelease(t)
        \/ PredictSarimaAnswered(t)
        \/ PredictSetFlag(t)
        \/ StatusRead(t)
        \/ StatusShouldUseFallback(t)
        \/ InfoRead(t)
        \/ InfoReturn(t)
        \/ SarimaDirectEnter(t)
        \/ SarimaDirectAcquire(t)
        \/ SarimaDirectAppend(t)
        \/ ResetEnter(t)
        \/ ResetAcquire(t)
        \/ ResetClear(t)

SpecLock == Init /\ [][NextLock]_vars

\* SpecLockFair: the calls that take a lock, one per caller at most at a
\* time and NumThreads of them in all, and the status calls without limit.
\* A caller inside a call keeps being scheduled, so each caller's steps
\* after the call are weakly fair; nothing obliges a new call to be made.
LockCalls == NumThreads

\* a step inside a call of caller t
Proceed(t) ==
    \/ UpdateAcquire(t)
    \/ UpdateAppend(t)
    \/ SarimaUpdateAcquire(t)
    \/ SarimaUpdateAppend(t)
    \/ UpdateShouldUseFallback(t)
    \/ UpdateSetFlag(t)
    \/ UpdateRelease(t)
    \/ StatusShouldUseFallback(t)
    \/ InfoReturn(t)
    \/ SarimaDirectAcquire(t)
    \/ SarimaDirectAppend(t)
    \/ ResetAcquire(t)
    \/ ResetClear(t)

NextLockFair ==
    \E t \in Threads :
        \/ UpdateEnterOver(t, {<<40, 30>>}, LockCalls)
        \/ SarimaDirectEnterOver(t, {<<40, 30>>}, LockCalls)
        \/ ResetEnterOver(t, LockCalls)
        \/ StatusRead(t)
        \/ InfoRead(t)
        \/ Proceed(t)

SpecLockFair ==
    /\ Init
    /\ [][NextLockFair]_vars
    /\ \A t \in Threads : WF_vars(Proceed(t))

(***************************************************************************)
(* Claims                                                                  *)
(***************************************************************************)
PrimaryAvailable == GRANITE_AVAILABLE /\ use_granite

\* C1 (SpecPredict): for every history with fewer than 10 points predict()
\* returns no-result and attempts no model: neither the primary (and its
\* load), nor the seasonal fallback, nor the naive heuristic.
C1_InsufficientDataIsNoResult ==
    /\ []((op = "predict" /\ arg.len < MinPoints)
              => (ret.kind = "none" /\ attempted = <<>>))
    /\ [][(op' = "predict" /\ arg'.len < MinPoints)
              => UNCHANGED <<model_loaded, use_granite, useFallback, loadRuns>>]_vars

\* C1 is checked on a service whose primary is available and never loaded,
\* so that every later step of predict() would have had something to attempt.
C1_Witness ==
    /\ op = "predict" /\ arg.len = MinPoints - 1
    /\ ret.kind = "none" /\ attempted = <<>>
    /\ PrimaryAvailable /\ sRunning

\* C2 (SpecPredict), as claimed: every predict() on a history of at least 10
\* points returns a ForecastResult, whatever fails during the call.
C2_ResultOnceMinimumMet ==
    (op = "predict" /\ arg.len >= MinPoints) => ret.kind = "forecast"

\* C3 (Spec), as claimed: with the primary available and enough context, a
\* predict() that follows updates leaving the rolling MAE above the threshold
\* does not return the primary's forecast, and one that follows updates
\* leaving it at or below the threshold attempts the primary first.
C3_TrackerDrivesNextPredict ==
    (/\ op = "predict" /\ ret.kind = "forecast"
     /\ PrimaryAvailable /\ ret.context_size >= ContextLength)
        => IF MaeGreater(currentMae, MaeThreshold)
           THEN ret.model # GraniteTag
           ELSE Len(attempted) >= 1 /\ attempted[1] = "granite"

\* C4 (SpecPredict), as claimed: every ForecastResult holds exactly
\* min(forecast_horizon, 24) predictions, whichever model produced them.
C4_PredictionCount ==
    (op = "predict" /\ ret.kind = "forecast")
        => ret.nPredictions = Min(forecast_horizon, MaxHorizon)

\* C5 (Spec), as claimed: when the primary is unavailable (library missing,
\* or disabled by a failed load) shouldUseFallback() returns true.
C5_UnavailableMeansFallback ==
    (op = "shouldUseFallback" /\ ~PrimaryAvailable) => ret.val = TRUE

\* C6 (Spec), as claimed: useFallback goes from true to false only in a state
\* where the primary is available and the rolling MAE is at or below the
\* threshold, and with the primary unavailable it is true after every
\* updateMaeTracking call.
C6_FlagFollowsTransitionRule ==
    [][/\ (useFallback /\ ~useFallback')
             => (PrimaryAvailable' /\ ~MaeGreater(currentMae', MaeThreshold))
       /\ (op' = "updateMaeTracking" /\ ~PrimaryAvailable') => useFallback'
      ]_vars

Aligned(predictions, actuals) ==
    /\ Len(predictions) = Len(actuals)
    /\ \A i \in 1..Len(predictions) : <<predictions[i], actuals[i]>> \in Samples

IsSuffix(short, long) ==
    /\ Len(short) <= Len(long)
    /\ short = SubSeq(long, Len(long) - Len(short) + 1, Len(long))

C8_FifosAlignedAndBounded ==
    /\ [](/\ Len(predictionHistory) = Min(calls, MaeWindowSize)
          /\ Aligned(predictionHistory, actualHistory)
          /\ Len(sPredictionHistory) <= MaeWindowSize
          /\ Aligned(sPredictionHistory, sActualHistory)
          /\ IsSuffix(sPredictionHistory, predictionHistory)
          /\ IsSuffix(sActualHistory, actualHistory))
    /\ [][(op' = "updateMaeTracking" /\ Len(predictionHistory) = MaeWindowSize)
             => /\ predictionHistory' = Append(Tail(predictionHistory), arg'.predicted)
                /\ actualHistory' = Append(Tail(actualHistory), arg'.actual)
         ]_vars

\* more calls than the window holds, the two oldest pairs already evicted
C8_Witness ==
    /\ calls = MaeWindowSize + 2
    /\ Len(predictionHistory) = MaeWindowSize
    /\ Len(actualHistory) = MaeWindowSize
    /\ predictionHistory[1] # predictionHistory[MaeWindowSize]

\* C9 (Spec), as claimed: predict() and the status calls leave both FIFOs,
\* currentMae and the fallback-active flag of the orchestrator unchanged.
C9_TrackerFrame ==
    [][(op' \in {"predict", "shouldUseFallback", "getFallbackInfo", "get_model_info"})
          => UNCHANGED fsTracker]_vars

\* C10 (SpecLoad), as claimed: the load of the primary model is executed at
\* most once, and never by two callers at a time.
C10_LoadAtMostOnce ==
    /\ loadRuns <= 1
    /\ Cardinality({t \in Threads : pc[t] = "loading"}) <= 1

PrimaryAttempted == Len(attempted) >= 1 /\ attempted[1] = "granite"

\* C11 (SpecPredict): a predict() call that attempts the primary with its
\* model loaded and does not get its output (inference exception, empty
\* output after sanitization) continues with the seasonal fallback, returns
\* normally and leaves the primary enabled; every predict() call made with
\* the primary enabled and enough context attempts it first; the primary is
\* disabled only by a predict() call whose load ran and failed, and such a
\* call does disable it; no other operation changes use_granite.
C11_PrimaryFailureIsLocal ==
    [][/\ op' = "predict" =>
            /\ (PrimaryAttempted' /\ model_loaded') => use_granite'
            /\ (PrimaryAttempted' /\ ~model_loaded') => ~use_granite'
            /\ (use_granite /\ ~use_granite')
                  => /\ PrimaryAttempted' /\ ~model_loaded /\ ~model_loaded'
                     /\ loadRuns' = loadRuns + 1
            /\ (PrimaryAttempted' /\ ret'.kind = "forecast" /\ ret'.model # GraniteTag)
                  => (Len(attempted') >= 2 /\ attempted'[2] = "sarima")
            /\ (use_granite /\ ret'.kind = "forecast"
                    /\ ret'.context_size >= ContextLength) => PrimaryAttempted'
       /\ op' # "predict" => UNCHANGED <<use_granite, model_loaded>>
      ]_vars

\* the model was loaded by an earlier call or by this one, the primary gave
\* no output in this call, the seasonal fallback answered, the primary is
\* still enabled
C11_Witness ==
    /\ op = "predict" /\ PrimaryAttempted /\ model_loaded /\ loadRuns = 1
    /\ ret.kind = "forecast" /\ ret.model = "SARIMA"
    /\ attempted = <<"granite", "sarima">>
    /\ use_granite

\* C13 (SpecPredict): the model tag of every returned result names the model
\* whose output is returned: the primary tag exactly for the primary's
\* output, the seasonal-fallback tag exactly for the fallback engine's, the
\* tertiary tag otherwise; the tag is never 'unknown', and model_type is
\* 'granite' exactly for the primary's output.
C13_ModelTagNamesSource ==
    (op = "predict" /\ ret.kind = "forecast")
        => /\ (ret.model = GraniteTag) <=> (ret.source = "granite")
           /\ (ret.model = SarimaGetModelInfo.modelType) <=> (ret.source = "sarima")
           /\ (ret.model = NaiveTag) <=> (ret.source = "naive")
           /\ ret.model # "unknown"
           /\ (ret.model_type = "granite") <=> (ret.source = "granite")

\* the tertiary model answered after the primary and the fallback engine
\* both yielded nothing
C13_Witness ==
    /\ op = "predict"
    /\ ret.kind = "forecast"
    /\ attempted = <<"granite", "sarima", "naive">>
    /\ ret.source = "naive"
    /\ ret.model = NaiveTag
    /\ ret.model_type = "statistical"

\* C14 (SpecPredict): humidity_correction_applied of a returned result is
\* true exactly when the correction was added to the predictions: false when
\* exogenous data is absent, has fewer than 10 points, or the corrector
\* returns the predictions unchanged.
C14_HumidityFlagIsExact ==
    (op = "predict" /\ ret.kind = "forecast")
        => (ret.humidity_correction_applied <=> ret.humidity_corrected)

\* C12 (SpecSarima), as claimed: in every reachable state of the fallback
\* service, forecast() on a well-formed history of at least 10 points returns
\* a result with exactly `steps` predictions.
C12_ForecastAlwaysResult ==
    (op = "sarima.forecast" /\ arg.len >= MinPoints /\ arg.timestamps = "ok")
        => (ret.kind = "result" /\ Len(ret.predictions) = arg.steps)

\* a forecast value computed by this code that is the number c
IsNumber(v, c) == v.sym = "exact" /\ v.den # 0 /\ v.num = c * v.den

\* C15 (SpecSarima), as claimed: for a constant history of at least 10 points
\* every prediction the fallback service computes equals the constant, with
\* confidence 0.95 (values computed by statsmodels are left unconstrained).
C15_ConstantHistoryForecast ==
    (op = "sarima.forecast" /\ arg.kind = "constant" /\ ret.kind = "result")
        => /\ \A i \in 1..Len(ret.predictions) :
                 \/ ret.predictions[i].sym = "lib"
                 \/ IsNumber(ret.predictions[i], ConstantValue)
           /\ ret.confidence = 95

\* the hourly humidity values are all h, 0 <= h <= 100
ConstantHumidity(history, h) ==
    /\ history.len >= MinExogenousPoints /\ history.usable
    /\ history.hourly # <<>>
    /\ h \in 0..100
    /\ \A i \in 1..Len(history.hourly) : history.hourly[i] = h

\* C16 (SpecNumeric): when the humidity history has at least 10 points and
\* its hourly values all equal h, 0 <= h <= 100, the corrector returns as
\* many values as it was given, value i being tempPredictions[i] plus
\* (h - 50) * 0.05; with h = 90 and a base of 25 every value is 27.
C16_ConstantHumidityCorrection ==
    (op = "applyHumidityCorrection") =>
        \A h \in 0..100 :
            ConstantHumidity(arg.humidityHistory, h) =>
                /\ ret.applied
                /\ Len(ret.values) = Len(arg.tempPredictions)
                /\ \A i \in 1..Len(ret.values) :
                      /\ ret.values[i].den > 0
                      /\ ret.values[i].num * ImpactDivisor
                            = (arg.tempPredictions[i] * ImpactDivisor
                                  + (h - ReferenceHumidity)) * ret.values[i].den
                      /\ (h = 90 /\ arg.tempPredictions[i] = 25)
                            => IsNumber(ret.values[i], 27)

\* humidity held at 90 for more hours than the window, base 25 at three
\* steps, every corrected value 27
C16_Witness ==
    /\ op = "applyHumidityCorrection"
    /\ ConstantHumidity(arg.humidityHistory, 90)
    /\ Len(arg.humidityHistory.hourly) > HumidityWindow
    /\ arg.tempPredictions = <<25, 25, 25>>
    /\ ret.applied
    /\ \A i \in 1..3 : IsNumber(ret.values[i], 27)

\* C17 (SpecNumeric), as claimed: for D = 0, any order d >= 1 and a series
\* longer than d, _invertDifferencing on k zero deltas returns the values
\* that continue the series with zero d-th differences: the series extended
\* by them differences to the differenced series followed by k zeros.
C17_DifferencingRoundTrip ==
    (/\ op = "_invertDifferencing"
     /\ arg.D = 0 /\ arg.d >= 1
     /\ Len(arg.originalSeries) > arg.d
     /\ arg.forecasts = Zeros(Len(arg.forecasts)))
        => ApplyDifferencing(arg.originalSeries \o ret.values, arg.d, arg.s, 0)
              = ApplyDifferencing(arg.originalSeries, arg.d, arg.s, 0)
                   \o Zeros(Len(arg.forecasts))

\* C18 (SpecApp): when predict() returns no-result, update_metric_forecast
\* leaves the forecast stored for the metric as it was before the call.
C18_NoResultRetainsForecast ==
    [][(op' = "update_metric_forecast" /\ arg'.predict = "none")
          => stateForecast'[arg'.metric] = stateForecast[arg'.metric]]_vars

\* the fields of the two error trackers
trackerState == <<fsTracker, sTracker>>

\* the positions at which a caller is about to write a tracker field
WritePositions == {"l898", "s227", "l910", "l912", "l765", "l936", "d227", "s665"}

\* C19 (SpecLock): every write to the tracker state is made by a caller
\* holding ForecastService._lock; while a caller is between the steps of an
\* update no step of another caller changes the tracker state; and when all
\* calls have completed after an update, useFallback is what the transition
\* rule gives for the final currentMae.
C19_TrackerWritesUnderLock ==
    /\ [](\A t \in Threads : pc[t] \in WritePositions => fsLock = t)
    /\ [][\A t \in Threads :
             (fsLock = t /\ fsLock' = t /\ pc'[t] = pc[t]) => UNCHANGED trackerState]_vars
    /\ []((calls > 0 /\ \A t \in Threads : pc[t] = "idle")
             => (useFallback <=> MaeGreater(currentMae, MaeThreshold)))

\* the models in the order predict() tries them
ModelOrder == <<"granite", "sarima", "naive">>

\* the attempts are taken in the order of ModelOrder, none twice
InModelOrder(tried) ==
    \E picked \in SUBSET (1..Len(ModelOrder)) :
        /\ Len(tried) = Cardinality(picked)
        /\ \A i \in 1..Len(tried) :
              \E j \in picked : /\ tried[i] = ModelOrder[j]
                                /\ Cardinality({l \in picked : l < j}) = i - 1

\* C20 (SpecPredict): in every predict() call the models are attempted in
\* the order primary, seasonal fallback, naive heuristic, a later one only
\* when every earlier one yielded nothing (so the seasonal fallback is always
\* attempted before the naive heuristic and a result comes from the last
\* model attempted); the primary is attempted only if it is available and
\* the working series has at least contextLength points; and the naive
\* heuristic, once reached, always yields a result.
C20_FixedOrderNaiveAlwaysAnswers ==
    /\ [](op = "predict"
            => /\ InModelOrder(attempted)
               /\ ("naive" \in {attempted[i] : i \in 1..Len(attempted)})
                     => ("sarima" \in {attempted[i] : i \in 1..Len(attempted)})
               /\ (ret.kind = "forecast" /\ ~InsufficientData(arg.len))
                     => ret.source = attempted[Len(attempted)]
               /\ ("naive" \in {attempted[i] : i \in 1..Len(attempted)})
                     => ret.kind = "forecast")
    /\ [][(op' = "predict" /\ "granite" \in {attempted'[i] : i \in 1..Len(attempted')})
            => (GRANITE_AVAILABLE /\ use_granite /\ arg'.workingLen >= ContextLength)]_vars

\* C21 (SpecPredict): predict() aggregates hourly exactly when aggregateData
\* is true and the raw history is strictly longer than sampleInterval; in
\* every other call the raw series is the working series, the result's
\* aggregated flag is false and context_size equals original_data_points.
C21_AggregatesExactlyAboveThreshold ==
    (op = "predict" /\ ~InsufficientData(arg.len))
        => LET aggregates == arg.aggregateData /\ arg.len > SampleInterval
           IN  /\ ~aggregates => arg.workingLen = arg.len
               /\ ret.kind = "forecast"
                     => /\ ret.aggregated <=> aggregates
                        /\ ret.original_data_points = arg.len
                        /\ ret.context_size = arg.workingLen
                        /\ ~ret.aggregated => ret.context_size = ret.original_data_points

\* a history of exactly sampleInterval points passed with aggregateData set
\* is forecast from its raw points
C21_Witness ==
    /\ op = "predict"
    /\ arg.aggregateData
    /\ arg.len = SampleInterval
    /\ ret.kind = "forecast"
    /\ ~ret.aggregated
    /\ ret.context_size = SampleInterval

\* the last n entries of a sequence
LastEntries(seq, n) == SubSeq(seq, Len(seq) - n + 1, Len(seq))

\* C22 (Spec): after every updateMaeTracking(predicted, actual) the two
\* FIFOs hold exactly the most recent min(k, maeWindowSize) pairs, k being
\* the number of calls so far, and currentMae, which is also the value
\* returned, is the mean of |predicted_i - actual_i| over those pairs and is
\* never negative.
C22_MaeIsWindowMean ==
    /\ [](op = "updateMaeTracking"
            => LET n == Min(calls, MaeWindowSize)
               IN  /\ Len(predictionHistory) = n /\ Len(actualHistory) = n
                   /\ MaeEqual(currentMae,
                               [num |-> SumAbsErr(predictionHistory, actualHistory, n),
                                den |-> n])
                   /\ currentMae.num >= 0 /\ currentMae.den > 0
                   /\ ret.mae = currentMae)
    /\ [][op' = "updateMaeTracking"
            => LET n == Min(calls', MaeWindowSize)
               IN  /\ predictionHistory'
                        = LastEntries(Append(predictionHistory, arg'.predicted), n)
                   /\ actualHistory' = LastEntries(Append(actualHistory, arg'.actual), n)]_vars

\* more calls than the window holds: the window is full of the latest pairs
\* and the MAE has come back under the threshold
C22_Witness ==
    /\ op = "updateMaeTracking"
    /\ calls > MaeWindowSize
    /\ Len(predictionHistory) = MaeWindowSize
    /\ "fs:deactivate" \in logs
    /\ ~MaeGreater(currentMae, MaeThreshold)

\* C23 (Spec): with the primary available, immediately after every
\* updateMaeTracking call the fallback flag of both services equals
\* (currentMae > maeThreshold), whatever it was before; the comparison is
\* strict, so an MAE equal to the threshold leaves the primary active.
C23_NoHysteresis ==
    (op = "updateMaeTracking" /\ PrimaryAvailable)
        => /\ useFallback <=> (currentMae.num > MaeThreshold * currentMae.den)
           /\ fallbackActive <=> (currentMae.num > MaeThreshold * currentMae.den)

\* the flag was switched on by the first call and is switched off by the
\* second, whose MAE is exactly the threshold
C23_Witness ==
    /\ op = "updateMaeTracking"
    /\ PrimaryAvailable
    /\ calls = 2
    /\ currentMae.num = MaeThreshold * currentMae.den
    /\ "fs:deactivate" \in logs
    /\ ~useFallback
    /\ ~fallbackActive

\* C24 (SpecNumeric): aggregateHourlyData returns its input unchanged
\* whenever the input spans less than one hour, and also on a timestamp or
\* resampling error; it never raises.
C24_ShortSpanReturnedUnchanged ==
    (op = "aggregateHourlyData"
       /\ (arg.spanSeconds < SecondsPerHour \/ arg.history.malformed # "none"))
        => ret.history = arg.history

RECURSIVE Binomial(_, _)
Binomial(k, j) ==
    IF j = 0 \/ j = k THEN 1 ELSE Binomial(k - 1, j - 1) + Binomial(k - 1, j)

RECURSIVE AlternatingSum(_, _, _, _, _)
AlternatingSum(x, i, lag, k, j) ==
    IF j > k THEN 0
    ELSE (IF (k - j) % 2 = 0 THEN 1 ELSE -1) * Binomial(k, j) * x[i + j * lag]
           + AlternatingSum(x, i, lag, k, j + 1)

\* the k-th difference of x at the given lag, written out point by point
LagDifference(x, lag, k) ==
    [i \in 1..(Len(x) - k * lag) |-> AlternatingSum(x, i, lag, k, 0)]

\* C25 (SpecNumeric): _applyDifferencing takes lag-s differences D times and
\* then lag-1 differences d times; a step on a series not longer than its
\* lag leaves the series as it is, so a non-empty input never gives an empty
\* output; when every step applies the output has n - D*s - d values, each
\* the successive difference of the input.
C25_DifferencingOrderAndLengths ==
    (op = "_applyDifferencing")
        => LET x == arg.series
               n == Len(x)
               seasonalSteps == Min(arg.D, (n - 1) \div arg.s)
               m == n - seasonalSteps * arg.s
               plainSteps == Min(arg.d, m - 1)
           IN  /\ Len(ret.values) >= 1
               /\ ret.values = LagDifference(LagDifference(x, arg.s, seasonalSteps),
                                             1, plainSteps)
               /\ (n > arg.D * arg.s + arg.d)
                     => /\ seasonalSteps = arg.D /\ plainSteps = arg.d
                        /\ Len(ret.values) = n - arg.D * arg.s - arg.d
               /\ (n <= arg.s /\ n = 1) => ret.values = x

\* both kinds of step ran on a series long enough for them
C25_Witness ==
    /\ op = "_applyDifferencing"
    /\ arg.D = 1 /\ arg.d = 1 /\ arg.s = 2
    /\ arg.series = <<0, 1, 1, 0>>
    /\ ret.values = <<-2>>

\* C26 (SpecSarima): forecast() is a function of its arguments: whatever
\* forecast calls came before, a call returns the predictions and the model
\* tag (its period suffix) that the same call returns on a service whose
\* configured period no earlier call has rewritten.
C26_ForecastIsDeterministic ==
    (op = "sarima.forecast" /\ ret.kind = "result")
        => LET in == <<arg.kind, arg.len>>
               fresh == PeriodAfterDetection(in, SeasonalPeriod)
           IN  /\ ret.period = fresh
               /\ ret.predictions =
                     IF STATSMODELS_AVAILABLE /\ arg.libFit = "ok"
                     THEN LibraryPredictions(arg.steps)
                     ELSE SimplePredictionsTable[in, arg.steps, fresh, arg.arFit]

\* the timestamps are strictly increasing
Ascending(timestamps) ==
    \A i \in 1..(Len(timestamps) - 1) : timestamps[i] < timestamps[i + 1]

\* C27 (SpecNumeric): the i-th prediction of a result has horizon_step i
\* and timestamp last working timestamp + i * interval, the interval being
\* one hour for an aggregated result and otherwise the difference of the
\* last two input timestamps; for ascending input timestamps the prediction
\* timestamps are strictly increasing and all later than the last input one.
C27_PredictionTimestamps ==
    (op = "future_timestamps")
        => LET w == arg.workingTimestamps
               last == w[Len(w)]
               p == ret.predictions
           IN  /\ Len(p) = arg.n
               /\ \A i \in 1..Len(p) : p[i].horizon_step = i
               /\ arg.aggregated
                     => \A i \in 1..Len(p) : p[i].timestamp = last + i * SecondsPerHour
               /\ (~arg.aggregated /\ Len(w) >= 2)
                     => \A i \in 1..Len(p) :
                           p[i].timestamp = last + i * (last - w[Len(w) - 1])
               /\ (Ascending(w) /\ (arg.aggregated \/ Len(w) >= 2))
                     => /\ Ascending([i \in 1..Len(p) |-> p[i].timestamp])
                        /\ \A i \in 1..Len(p) : p[i].timestamp > last

\* a raw series sampled every minute, three predictions one minute apart
C27_Witness ==
    /\ op = "future_timestamps"
    /\ ~arg.aggregated
    /\ arg.workingTimestamps = <<7080, 7140, 7200>>
    /\ Len(ret.predictions) = 3
    /\ ret.predictions[1].timestamp = 7260
    /\ ret.predictions[3].timestamp = 7380
    /\ ret.predictions[3].horizon_step = 3

\* C28 (SpecNumeric): _invertDifferencing adds the lag-s base values as many
\* times as _applyDifferencing subtracted them from a series of the same
\* length; when the seasonal step was a no-op (n <= s) it adds none.
C28_SeasonalInversionMirrors ==
    (op = "_invertDifferencing")
        => LET x == arg.originalSeries
               n == Len(x)
               subtracted == Min(arg.D, (n - 1) \div arg.s)
               plain == CumulateTimes(arg.forecasts, x, arg.d)
           IN  ret.values =
                 [i \in 1..Len(plain) |->
                     plain[i] + (IF subtracted = 0 THEN 0
                                 ELSE subtracted * x[n - arg.s + ((i - 1) % arg.s) + 1])]

\* C29 (Spec): the two error trackers stay in step. After every
\* ForecastService.updateMaeTracking and every
\* SarimaFallbackService.resetMaeTracking the orchestrator's histories and
\* MAE equal the fallback service's, and useFallback equals fallbackActive.
C29_TrackersInStep ==
    (op \in {"updateMaeTracking", "resetMaeTracking"})
        => /\ predictionHistory = sPredictionHistory
           /\ actualHistory = sActualHistory
           /\ MaeEqual(currentMae, sCurrentMae)
           /\ useFallback = fallbackActive

\* the positions at which a caller waits for a lock
WaitsForFsLock == {"l897"}
WaitsForSarimaLock == {"l907", "d226", "s664"}

\* C30 (SpecLockFair): the tracker locks cannot deadlock. A caller that
\* holds both locks took ForecastService._lock first and no caller asks for
\* ForecastService._lock while holding SarimaFallbackService._lock; no caller
\* asks for a lock it holds; a caller outside a call holds no lock; and under
\* every interleaving each call that was started returns.
C30_LocksCannotDeadlock ==
    /\ [](\A t \in Threads :
            /\ pc[t] \in WaitsForFsLock => (fsLock # t /\ sLock # t)
            /\ pc[t] \in WaitsForSarimaLock => sLock # t
            /\ pc[t] = "idle" => (fsLock # t /\ sLock # t))
    /\ [][\A t \in Threads :
             /\ (sLock' = t /\ fsLock' = t) => fsLock = t
             /\ (fsLock' = t /\ fsLock # t) => sLock # t]_vars
    /\ \A t \in Threads : (pc[t] # "idle") ~> (pc[t] = "idle")

\* one caller holds both locks inside updateMaeTracking while another waits
\* for one of them
C30_Witness ==
    \E t, u \in Threads :
        /\ pc[t] = "s227" /\ fsLock = t /\ sLock = t
        /\ pc[u] \in WaitsForFsLock \cup WaitsForSarimaLock

====
